---- MODULE Spec2Model ----
(***************************************************************************)
(* Control plane of the media router: one Transport (WebRtc, Plain, Pipe   *)
(* or Direct) with its Producers, Consumers, DataProducers and             *)
(* DataConsumers, the WebRtcServer that may handle it, and one             *)
(* RtpObserver.  Every handler of the TypeScript sources is one action;    *)
(* an async method is two: the part before its await (the call) and the    *)
(* part after it (the engine response).                                    *)
(***************************************************************************)
EXTENDS Integers, Sequences, FiniteSets, TLC

\* ------------------------------------------------------------------ bounds

\* Create calls (produce/consume/produceData/consumeData) per behaviour of Spec.
MaxCalls == 2

\* Largest sctpParameters.MIS a Transport of SpecSctp is constructed with.
MaxMIS == 2

\* SpecMid starts either at construction (counter 0) or MidWindow consume()
\* calls before the counter reaches MaxMid.
MidWindow == 2

\* ------------------------------------------------------- program constants

\* Transport.consume: "if (this.#nextMidForConsumers === 100000000)".
MaxMid == 100000000

\* The one Transport of the model (internal.transportId).
TransportId == 1

\* undefined, where a number is expected (an id, MIS)
None == 0

\* undefined, where a string or an object is expected (sctpState, a tuple, a certificate)
Undefined == "undefined"

\* #sctpStreamIds before getNextSctpStreamId() allocates the Buffer; afterwards
\* the variable holds << bits >>, bits[k + 1] being the byte of stream id k.
NoBuffer == <<>>

Kinds == {"WebRtcTransport", "PlainTransport", "PipeTransport", "DirectTransport"}

IceStates == {"new", "connected", "completed", "disconnected", "closed"}
DtlsStates == {"new", "connecting", "connected", "failed", "closed"}
SctpStates == {"new", "connecting", "connected", "failed", "closed"}

\* ---------------------------------------------------------------- state

VARIABLES
  kind,                 \* this.constructor.name
  closed,               \* Transport.#closed
  listeners,            \* channel/payloadChannel listeners for transportId exist
  mis,                  \* #data.sctpParameters.MIS, None without sctpParameters
  producers,            \* Map id -> Producer, in insertion order
  consumers,            \* Map id -> Consumer
  dataProducers,        \* Map id -> DataProducer
  dataConsumers,        \* Map id -> DataConsumer
  cnameForProducers,    \* #cnameForProducers, "" while unset (falsy either way)
  nextMidForConsumers,  \* #nextMidForConsumers
  sctpStreamIds,        \* #sctpStreamIds: NoBuffer, or << bytes >>
  nextSctpStreamId,     \* #nextSctpStreamId
  objs,                 \* create calls made so far and the child each one built
  iceState, iceSelectedTuple, dtlsState, dtlsRemoteCert, sctpState,  \* WebRtc/Plain #data
  tuple, rtcpTuple,     \* PlainTransport #data
  srvClosed,            \* WebRtcServer.#closed
  webRtcTransports,     \* WebRtcServer.#webRtcTransports (ids)
  closeListeners,       \* '@close' listeners the WebRtcServer installed on the Transport
  roClosed,             \* RtpObserver.#closed
  roListeners,          \* channel listeners for rtpObserverId exist
  roPaused,             \* RtpObserver.#paused
  roCalls,              \* pause/resume/addProducer/removeProducer calls awaiting the engine
  dtlsRole,             \* WebRtcTransport #data.dtlsParameters.role
  iceParameters,        \* WebRtcTransport #data.iceParameters
  localCalls,           \* connect/restartIce/getStats calls awaiting the engine
  trace                 \* what the last handler emitted, requested and threw, in order

registries == <<producers, consumers, dataProducers, dataConsumers>>
allocators == <<cnameForProducers, nextMidForConsumers, sctpStreamIds, nextSctpStreamId>>
tvars == <<kind, closed, listeners, mis>>
mirrors == <<iceState, iceSelectedTuple, dtlsState, dtlsRemoteCert, sctpState, tuple, rtcpTuple>>
svars == <<srvClosed, webRtcTransports, closeListeners>>
ovars == <<roClosed, roListeners, roPaused, roCalls>>
local == <<dtlsRole, iceParameters, localCalls>>
vars == <<tvars, registries, allocators, objs, mirrors, svars, ovars, local, trace>>

\* ------------------------------------------------------- events and Maps

\* EnhancedEventEmitter.emit / safeEmit on `src`, and Channel.request.
Ev(src, name, arg) == <<src, name, arg>>
Req(method, arg) == <<"request", method, arg>>
Throw(error) == <<"throw", error, 0>>

\* JavaScript Map, as the sequence of its <<key, value>> entries in insertion order.
MapHas(m, k) == \E i \in 1..Len(m) : m[i][1] = k
MapSet(m, k, v) ==
  IF MapHas(m, k)
    THEN [i \in 1..Len(m) |-> IF m[i][1] = k THEN <<k, v>> ELSE m[i]]
    ELSE Append(m, <<k, v>>)
MapDelete(m, k) == SelectSeq(m, LAMBDA e : e[1] # k)
MapValues(m) == {m[i][2] : i \in 1..Len(m)}

Handles == 1..Len(objs)
Built(h) == objs[h].phase = "built"
Registered(h) ==
  \/ h \in MapValues(producers)
  \/ h \in MapValues(consumers)
  \/ h \in MapValues(dataProducers)
  \/ h \in MapValues(dataConsumers)

\* A handler that returns at its closed guard.
Return == trace' = <<>>

\* ------------------------------------------------------------- children

\* let sctpStreamId: number  (never assigned on a DirectTransport)
NoStreamId == -1

\* DataProducer.transportClosed(): the object after the call.
DataProducerTransportClosed(o) ==
  IF o.closed THEN o ELSE [o EXCEPT !.closed = TRUE]

\* Producer, Consumer and DataConsumer have the ownership shape of DataProducer:
\* transportClosed() closes the child and does not notify the owner.
ChildTransportClosed(o) ==
  IF o.closed THEN o ELSE [o EXCEPT !.closed = TRUE]

TransportClosedOf(o) ==
  IF o.cls = "DataProducer" THEN DataProducerTransportClosed(o)
                            ELSE ChildTransportClosed(o)

\* What child h emits inside transportClosed(): the public 'transportclose'
\* and the observer 'close', nothing on the private channel.
TransportClosedEvents(h) ==
  IF objs[h].closed THEN <<>>
  ELSE << Ev(objs[h].cls, "transportclose", h),
          Ev(objs[h].cls \o ".observer", "close", h) >>

\* "for (const child of registry.values()) child.transportClosed()", with the
\* Router notification the loop body emits after each child ("" for none).
RECURSIVE RegistryClosedEvents(_, _)
RegistryClosedEvents(m, routerEvent) ==
  IF m = <<>> THEN <<>>
  ELSE TransportClosedEvents(Head(m)[2])
       \o (IF routerEvent = "" THEN <<>>
           ELSE << Ev("Transport", routerEvent, Head(m)[2]) >>)
       \o RegistryClosedEvents(Tail(m), routerEvent)

\* The objects after the four loops of a closing Transport.
ChildrenClosed ==
  [h \in Handles |-> IF Registered(h) THEN TransportClosedOf(objs[h]) ELSE objs[h]]

\* this.#sctpStreamIds[sctpStreamId] = v
SetStreamId(buf, sid, v) ==
  IF sid \in 0..(Len(buf) - 1) THEN [buf EXCEPT ![sid + 1] = v] ELSE buf

\* producer.on('@close', ...) installed by produce().
OnProducerClose(h) ==
  /\ producers' = MapDelete(producers, objs[h].id)
  /\ UNCHANGED <<consumers, dataProducers, dataConsumers, allocators>>

\* consumer.on('@close', ...) installed by consume().
OnConsumerClose(h) ==
  /\ consumers' = MapDelete(consumers, objs[h].id)
  /\ UNCHANGED <<producers, dataProducers, dataConsumers, allocators>>

\* consumer.on('@producerclose', ...) installed by consume().
OnConsumerProducerClose(h) ==
  /\ consumers' = MapDelete(consumers, objs[h].id)
  /\ UNCHANGED <<producers, dataProducers, dataConsumers, allocators>>

\* dataProducer.on('@close', ...) installed by produceData().
OnDataProducerClose(h) ==
  /\ dataProducers' = MapDelete(dataProducers, objs[h].id)
  /\ UNCHANGED <<producers, consumers, dataConsumers, allocators>>

\* A faulty variant of OnDataConsumerClose that forgets to free the stream id.
OnDataConsumerCloseKeepsId(h) ==
  /\ dataConsumers' = MapDelete(dataConsumers, objs[h].id)
  /\ UNCHANGED <<producers, consumers, dataProducers, allocators>>

\* dataConsumer.on('@close', ...) installed by consumeData().
OnDataConsumerClose(h) ==
  /\ dataConsumers' = MapDelete(dataConsumers, objs[h].id)
  /\ sctpStreamIds' = IF sctpStreamIds # NoBuffer
                        THEN << SetStreamId(sctpStreamIds[1], objs[h].sid, 0) >>
                        ELSE sctpStreamIds
  /\ UNCHANGED <<producers, consumers, dataProducers,
                 cnameForProducers, nextMidForConsumers, nextSctpStreamId>>

\* A faulty variant of OnDataConsumerDataProducerClose that keeps the stream
\* id reserved.
OnDataConsumerDataProducerCloseKeepsId(h) ==
  /\ dataConsumers' = MapDelete(dataConsumers, objs[h].id)
  /\ UNCHANGED <<producers, consumers, dataProducers, allocators>>

\* dataConsumer.on('@dataproducerclose', ...) installed by consumeData().
OnDataConsumerDataProducerClose(h) ==
  /\ dataConsumers' = MapDelete(dataConsumers, objs[h].id)
  /\ sctpStreamIds' = IF sctpStreamIds # NoBuffer
                        THEN << SetStreamId(sctpStreamIds[1], objs[h].sid, 0) >>
                        ELSE sctpStreamIds
  /\ UNCHANGED <<producers, consumers, dataProducers,
                 cnameForProducers, nextMidForConsumers, nextSctpStreamId>>

NotTransport == <<mirrors, svars, ovars, local>>


\* dataProducer.close() that flips the flag instead of setting it.
DataProducerCloseToggles(h) ==
  /\ h \in Handles /\ Built(h) /\ objs[h].cls = "DataProducer"
  /\ UNCHANGED <<tvars, NotTransport>>
  /\ objs' = [objs EXCEPT ![h].closed = ~objs[h].closed]
  /\ OnDataProducerClose(h)
  /\ trace' = << Req("transport.closeDataProducer", h),
                 Ev("DataProducer", "@close", h),
                 Ev("Transport", "@dataproducerclose", h),
                 Ev("DataProducer.observer", "close", h) >>

\* DataProducer.close()
DataProducerClose(h) ==
  /\ h \in Handles /\ Built(h) /\ objs[h].cls = "DataProducer"
  /\ UNCHANGED <<tvars, NotTransport>>
  /\ IF objs[h].closed
       THEN Return /\ UNCHANGED <<objs, registries, allocators>>
       ELSE /\ objs' = [objs EXCEPT ![h].closed = TRUE]
            /\ OnDataProducerClose(h)
            /\ trace' = << Req("transport.closeDataProducer", h),
                           Ev("DataProducer", "@close", h),
                           Ev("Transport", "@dataproducerclose", h),
                           Ev("DataProducer.observer", "close", h) >>

\* Producer.close(): as DataProducer.close(), with the Producer's request.
ProducerClose(h) ==
  /\ h \in Handles /\ Built(h) /\ objs[h].cls = "Producer"
  /\ UNCHANGED <<tvars, NotTransport>>
  /\ IF objs[h].closed
       THEN Return /\ UNCHANGED <<objs, registries, allocators>>
       ELSE /\ objs' = [objs EXCEPT ![h].closed = TRUE]
            /\ OnProducerClose(h)
            /\ trace' = << Req("transport.closeProducer", h),
                           Ev("Producer", "@close", h),
                           Ev("Transport", "@producerclose", h),
                           Ev("Producer.observer", "close", h) >>

\* Consumer.close()
ConsumerClose(h) ==
  /\ h \in Handles /\ Built(h) /\ objs[h].cls = "Consumer"
  /\ UNCHANGED <<tvars, NotTransport>>
  /\ IF objs[h].closed
       THEN Return /\ UNCHANGED <<objs, registries, allocators>>
       ELSE /\ objs' = [objs EXCEPT ![h].closed = TRUE]
            /\ OnConsumerClose(h)
            /\ trace' = << Req("transport.closeConsumer", h),
                           Ev("Consumer", "@close", h),
                           Ev("Consumer.observer", "close", h) >>

\* The Consumer's reaction to the engine's 'producerclose' notification.
ConsumerProducerClosed(h) ==
  /\ h \in Handles /\ Built(h) /\ objs[h].cls = "Consumer"
  /\ ~objs[h].closed
  /\ UNCHANGED <<tvars, NotTransport>>
  /\ objs' = [objs EXCEPT ![h].closed = TRUE]
  /\ OnConsumerProducerClose(h)
  /\ trace' = << Ev("Consumer", "@producerclose", h),
                 Ev("Consumer", "producerclose", h),
                 Ev("Consumer.observer", "close", h) >>

\* DataConsumer.close()
DataConsumerClose(h) ==
  /\ h \in Handles /\ Built(h) /\ objs[h].cls = "DataConsumer"
  /\ UNCHANGED <<tvars, NotTransport>>
  /\ IF objs[h].closed
       THEN Return /\ UNCHANGED <<objs, registries, allocators>>
       ELSE /\ objs' = [objs EXCEPT ![h].closed = TRUE]
            /\ OnDataConsumerClose(h)
            /\ trace' = << Req("transport.closeDataConsumer", h),
                           Ev("DataConsumer", "@close", h),
                           Ev("DataConsumer.observer", "close", h) >>

\* The DataConsumer's reaction to the engine's 'dataproducerclose' notification.
DataConsumerDataProducerClosed(h) ==
  /\ h \in Handles /\ Built(h) /\ objs[h].cls = "DataConsumer"
  /\ ~objs[h].closed
  /\ UNCHANGED <<tvars, NotTransport>>
  /\ objs' = [objs EXCEPT ![h].closed = TRUE]
  /\ OnDataConsumerDataProducerClose(h)
  /\ trace' = << Ev("DataConsumer", "@dataproducerclose", h),
                 Ev("DataConsumer", "dataproducerclose", h),
                 Ev("DataConsumer.observer", "close", h) >>

\* DataProducer.transportClosed() is called by the closing Transport only; the
\* loops of Transport.close/routerClosed/listenServerClosed are where it runs.

\* ------------------------------------------------------------ Transport

\* The WebRtcServer's listener on the Transport's '@close', installed by
\* handleWebRtcTransport(): one run per installed listener.
RECURSIVE ServerOnTransportCloseEvents(_)
ServerOnTransportCloseEvents(n) ==
  IF n = 0 THEN <<>>
  ELSE << Ev("WebRtcServer.observer", "webrtctransportunhandled", TransportId) >>
       \o ServerOnTransportCloseEvents(n - 1)

ServerOnTransportClose ==
  /\ webRtcTransports' = IF closeListeners > 0
                           THEN webRtcTransports \ {TransportId}
                           ELSE webRtcTransports
  /\ UNCHANGED <<srvClosed, closeListeners>>

\* A faulty variant of TransportClosedState that leaves the notification
\* listeners on the channels.
TransportClosedStateKeepsListeners ==
  /\ closed' = TRUE
  /\ objs' = ChildrenClosed
  /\ producers' = <<>>
  /\ consumers' = <<>>
  /\ dataProducers' = <<>>
  /\ dataConsumers' = <<>>
  /\ UNCHANGED <<kind, listeners, mis, allocators>>

\* The four loops and clear() calls of a closing Transport, with the flag and
\* the removal of the notification subscriptions before them.
TransportClosedState ==
  /\ closed' = TRUE
  /\ listeners' = FALSE
  /\ objs' = ChildrenClosed
  /\ producers' = <<>>
  /\ consumers' = <<>>
  /\ dataProducers' = <<>>
  /\ dataConsumers' = <<>>
  /\ UNCHANGED <<kind, mis, allocators>>

\* Transport.close() past its closed guard: what it requests and emits.
TransportCloseEvents ==
  << Req("router.closeTransport", TransportId) >>
  \o RegistryClosedEvents(producers, "@producerclose")
  \o RegistryClosedEvents(consumers, "")
  \o RegistryClosedEvents(dataProducers, "@dataproducerclose")
  \o RegistryClosedEvents(dataConsumers, "")
  \o << Ev("Transport", "@close", 0) >>
  \o ServerOnTransportCloseEvents(closeListeners)
  \o << Ev("Transport.observer", "close", 0) >>

\* A faulty variant of TransportRouterClosedEvents that tells the Router about
\* each Producer and DataProducer, as close() does.
TransportRouterClosedEventsNotifies ==
  RegistryClosedEvents(producers, "@producerclose")
  \o RegistryClosedEvents(consumers, "")
  \o RegistryClosedEvents(dataProducers, "@dataproducerclose")
  \o RegistryClosedEvents(dataConsumers, "")
  \o << Ev("Transport", "routerclose", 0) >>
  \o << Ev("Transport.observer", "close", 0) >>

\* Transport.routerClosed() past its closed guard: what it emits.
TransportRouterClosedEvents ==
  RegistryClosedEvents(producers, "")
  \o RegistryClosedEvents(consumers, "")
  \o RegistryClosedEvents(dataProducers, "")
  \o RegistryClosedEvents(dataConsumers, "")
  \o << Ev("Transport", "routerclose", 0) >>
  \o << Ev("Transport.observer", "close", 0) >>

\* Transport.listenServerClosed() past its closed guard: what it emits.
TransportListenServerClosedEvents ==
  RegistryClosedEvents(producers, "")
  \o RegistryClosedEvents(consumers, "")
  \o RegistryClosedEvents(dataProducers, "")
  \o RegistryClosedEvents(dataConsumers, "")
  \o << Ev("Transport", "@listenserverclose", 0) >>
  \o << Ev("Transport", "listenserverclose", 0) >>
  \o << Ev("Transport.observer", "close", 0) >>

\* A Transport method that returns at "if (this.#closed) return".
TransportReturn ==
  /\ Return
  /\ UNCHANGED <<tvars, registries, allocators, objs>>

\* A faulty variant of WebRtcMirrorsClosed that forgets the remote certificate.
WebRtcMirrorsClosedForgetsCert ==
  /\ iceState' = "closed"
  /\ iceSelectedTuple' = Undefined
  /\ dtlsState' = "closed"
  /\ sctpState' = IF sctpState # Undefined THEN "closed" ELSE sctpState
  /\ dtlsRemoteCert' = Undefined
  /\ UNCHANGED <<tuple, rtcpTuple>>

\* WebRtcTransport.close/routerClosed/webRtcServerClosed before the super call.
WebRtcMirrorsClosed ==
  /\ iceState' = "closed"
  /\ iceSelectedTuple' = Undefined
  /\ dtlsState' = "closed"
  /\ sctpState' = IF sctpState # Undefined THEN "closed" ELSE sctpState
  /\ UNCHANGED <<dtlsRemoteCert, tuple, rtcpTuple>>

\* A faulty variant of PlainMirrorsClosed that sets sctpState whether the
\* Transport has one or not.
PlainMirrorsClosedUnconditional ==
  /\ sctpState' = "closed"
  /\ UNCHANGED <<iceState, iceSelectedTuple, dtlsState, dtlsRemoteCert, tuple, rtcpTuple>>

\* PlainTransport.close/routerClosed before the super call.
PlainMirrorsClosed ==
  /\ sctpState' = IF sctpState # Undefined THEN "closed" ELSE sctpState
  /\ UNCHANGED <<iceState, iceSelectedTuple, dtlsState, dtlsRemoteCert, tuple, rtcpTuple>>

\* transport.close(), dispatched on the class of the Transport.
Close ==
  /\ UNCHANGED <<ovars, local>>
  /\ IF closed
       THEN TransportReturn /\ UNCHANGED <<mirrors, svars>>
       ELSE /\ CASE kind = "WebRtcTransport" -> WebRtcMirrorsClosed
                 [] kind = "PlainTransport" -> PlainMirrorsClosed
                 [] OTHER -> UNCHANGED mirrors
            /\ TransportClosedState
            /\ ServerOnTransportClose
            /\ trace' = TransportCloseEvents


\* transport.routerClosed() that forgets this.#dataConsumers.clear().
RouterClosedKeepsDataConsumers ==
  /\ UNCHANGED <<svars, ovars, local>>
  /\ IF closed
       THEN TransportReturn /\ UNCHANGED mirrors
       ELSE /\ CASE kind = "WebRtcTransport" -> WebRtcMirrorsClosed
                 [] kind = "PlainTransport" -> PlainMirrorsClosed
                 [] OTHER -> UNCHANGED mirrors
            /\ closed' = TRUE
            /\ listeners' = FALSE
            /\ objs' = ChildrenClosed
            /\ producers' = <<>>
            /\ consumers' = <<>>
            /\ dataProducers' = <<>>
            /\ UNCHANGED <<dataConsumers, kind, mis, allocators>>
            /\ trace' = TransportRouterClosedEvents

\* transport.routerClosed(), dispatched on the class of the Transport.
RouterClosed ==
  /\ UNCHANGED <<svars, ovars, local>>
  /\ IF closed
       THEN TransportReturn /\ UNCHANGED mirrors
       ELSE /\ CASE kind = "WebRtcTransport" -> WebRtcMirrorsClosed
                 [] kind = "PlainTransport" -> PlainMirrorsClosed
                 [] OTHER -> UNCHANGED mirrors
            /\ TransportClosedState
            /\ trace' = TransportRouterClosedEvents

\* webRtcTransport.webRtcServerClosed()
WebRtcServerClosed ==
  /\ kind = "WebRtcTransport"
  /\ UNCHANGED <<svars, ovars, local>>
  /\ IF closed
       THEN TransportReturn /\ UNCHANGED mirrors
       ELSE /\ WebRtcMirrorsClosed
            /\ TransportClosedState
            /\ trace' = TransportListenServerClosedEvents

\* ----------------------------------------------------------- WebRtcServer

\* The loop of WebRtcServer.close() over #webRtcTransports.values(): it calls
\* listenServerClosed(), which WebRtcTransport does not override, so the
\* method that runs is Transport.listenServerClosed().
ServerClosesTransport ==
  IF TransportId \in webRtcTransports
    THEN IF closed
           THEN UNCHANGED <<tvars, registries, allocators, objs>>
           ELSE TransportClosedState
    ELSE UNCHANGED <<tvars, registries, allocators, objs>>

ServerClosesTransportEvents ==
  IF TransportId \in webRtcTransports
    THEN (IF closed THEN <<>> ELSE TransportListenServerClosedEvents)
         \o << Ev("WebRtcServer.observer", "webrtctransportunhandled", TransportId) >>
    ELSE <<>>

\* #webRtcTransports as a listener of 'webrtctransportunhandled' finds it.
\* close() emits the event inside its loop over the registry, and clear()
\* runs after the loop; the '@close' listener emits it after its delete().
RegistryInCloseLoop == webRtcTransports
RegistryInCloseListener == webRtcTransports \ {TransportId}

\* webRtcServer.close()
WebRtcServerClose ==
  /\ UNCHANGED <<ovars, local, mirrors, closeListeners>>
  /\ IF srvClosed
       THEN /\ Return
            /\ UNCHANGED <<tvars, registries, allocators, objs, srvClosed, webRtcTransports>>
       ELSE /\ srvClosed' = TRUE
            /\ ServerClosesTransport
            /\ webRtcTransports' = {}
            /\ trace' = << Req("worker.closeWebRtcServer", 0) >>
                 \o ServerClosesTransportEvents
                 \o << Ev("WebRtcServer", "@close", 0) >>
                 \o << Ev("WebRtcServer.observer", "close", 0) >>

\* A faulty variant of WebRtcServerWorkerClosed that keeps the registry.
WebRtcServerWorkerClosedKeepsRegistry ==
  /\ UNCHANGED <<tvars, registries, allocators, objs, ovars, local, mirrors, closeListeners>>
  /\ IF srvClosed
       THEN Return /\ UNCHANGED <<srvClosed, webRtcTransports>>
       ELSE /\ srvClosed' = TRUE
            /\ UNCHANGED webRtcTransports
            /\ trace' = << Ev("WebRtcServer", "workerclose", 0),
                           Ev("WebRtcServer.observer", "close", 0) >>

\* webRtcServer.workerClosed()
WebRtcServerWorkerClosed ==
  /\ UNCHANGED <<tvars, registries, allocators, objs, ovars, local, mirrors, closeListeners>>
  /\ IF srvClosed
       THEN Return /\ UNCHANGED <<srvClosed, webRtcTransports>>
       ELSE /\ srvClosed' = TRUE
            /\ webRtcTransports' = {}
            /\ trace' = << Ev("WebRtcServer", "workerclose", 0),
                           Ev("WebRtcServer.observer", "close", 0) >>

\* webRtcServer.handleWebRtcTransport(transport).  The Router calls it once,
\* on the WebRtcTransport it has just constructed.
HandleWebRtcTransport ==
  /\ kind = "WebRtcTransport" /\ ~closed /\ closeListeners = 0
  /\ webRtcTransports' = webRtcTransports \cup {TransportId}
  /\ closeListeners' = closeListeners + 1
  /\ trace' = << Ev("WebRtcServer.observer", "webrtctransporthandled", TransportId) >>
  /\ UNCHANGED <<tvars, registries, allocators, objs, ovars, local, mirrors, srvClosed>>

\* ------------------------------------------------------------ RtpObserver

NotObserver == <<tvars, registries, allocators, objs, mirrors, svars, local>>

\* A faulty variant of RtpObserverClose without its closed guard.
RtpObserverCloseUnguarded ==
  /\ UNCHANGED NotObserver
  /\ roClosed' = TRUE
  /\ roListeners' = FALSE
  /\ UNCHANGED <<roPaused, roCalls>>
  /\ trace' = << Req("router.closeRtpObserver", 0),
                 Ev("RtpObserver", "@close", 0),
                 Ev("RtpObserver.observer", "close", 0) >>

\* rtpObserver.close()
RtpObserverClose ==
  /\ UNCHANGED NotObserver
  /\ IF roClosed
       THEN Return /\ UNCHANGED ovars
       ELSE /\ roClosed' = TRUE
            /\ roListeners' = FALSE
            /\ UNCHANGED <<roPaused, roCalls>>
            /\ trace' = << Req("router.closeRtpObserver", 0),
                           Ev("RtpObserver", "@close", 0),
                           Ev("RtpObserver.observer", "close", 0) >>


\* rtpObserver.routerClosed() without its closed guard.
RtpObserverRouterClosedUnguarded ==
  /\ UNCHANGED NotObserver
  /\ roClosed' = TRUE
  /\ roListeners' = FALSE
  /\ UNCHANGED <<roPaused, roCalls>>
  /\ trace' = << Ev("RtpObserver", "routerclose", 0),
                 Ev("RtpObserver.observer", "close", 0) >>

\* rtpObserver.routerClosed()
RtpObserverRouterClosed ==
  /\ UNCHANGED NotObserver
  /\ IF roClosed
       THEN Return /\ UNCHANGED ovars
       ELSE /\ roClosed' = TRUE
            /\ roListeners' = FALSE
            /\ UNCHANGED <<roPaused, roCalls>>
            /\ trace' = << Ev("RtpObserver", "routerclose", 0),
                           Ev("RtpObserver.observer", "close", 0) >>

\* "await this.channel.request(method, this.internal.rtpObserverId, ...)":
\* the call up to its await, with what it read before (wasPaused, producer).
\* None of the four methods looks at #closed.
ObserverCall(method, arg) ==
  /\ UNCHANGED <<NotObserver, roClosed, roListeners, roPaused>>
  /\ roCalls' = Append(roCalls, << method, arg, ~roClosed >>)
  /\ trace' = << Req(method, arg) >>

\* The i-th suspended call is a call of method; the engine can accept it only
\* if it still had the RtpObserver when the request was issued.
ObserverAnswered(i, method, ok) ==
  /\ i \in 1..Len(roCalls)
  /\ roCalls[i][1] = method
  /\ ok => roCalls[i][3]
  /\ roCalls' = SubSeq(roCalls, 1, i - 1) \o SubSeq(roCalls, i + 1, Len(roCalls))
  /\ UNCHANGED <<NotObserver, roClosed, roListeners>>

\* rtpObserver.pause(), up to the await: const wasPaused = this.#paused
RtpObserverPause == ObserverCall("rtpObserver.pause", roPaused)

\* rtpObserver.resume(), up to the await.
RtpObserverResume == ObserverCall("rtpObserver.resume", roPaused)

\* A faulty variant of RtpObserverPauseResponse that sets the flag whatever
\* the engine answered.
RtpObserverPauseResponseIgnoresFailure(i, ok) ==
  /\ ObserverAnswered(i, "rtpObserver.pause", ok)
  /\ roPaused' = TRUE
  /\ trace' = IF ok THEN (IF roCalls[i][2] THEN <<>>
                            ELSE << Ev("RtpObserver.observer", "pause", 0) >>)
                    ELSE << Throw("EngineRequestFailed") >>

\* rtpObserver.pause(), from the engine's response on.
RtpObserverPauseResponse(i, ok) ==
  /\ ObserverAnswered(i, "rtpObserver.pause", ok)
  /\ IF ok
       THEN /\ roPaused' = TRUE
            /\ trace' = IF roCalls[i][2] THEN <<>>
                        ELSE << Ev("RtpObserver.observer", "pause", 0) >>
       ELSE /\ UNCHANGED roPaused
            /\ trace' = << Throw("EngineRequestFailed") >>

\* rtpObserver.resume(), from the engine's response on.
RtpObserverResumeResponse(i, ok) ==
  /\ ObserverAnswered(i, "rtpObserver.resume", ok)
  /\ IF ok
       THEN /\ roPaused' = FALSE
            /\ trace' = IF roCalls[i][2]
                          THEN << Ev("RtpObserver.observer", "resume", 0) >>
                          ELSE <<>>
       ELSE /\ UNCHANGED roPaused
            /\ trace' = << Throw("EngineRequestFailed") >>

\* The methods and observer events of addProducer() and removeProducer().
ProducerMethods == {"rtpObserver.addProducer", "rtpObserver.removeProducer"}
ProducerEventOf(method) ==
  IF method = "rtpObserver.addProducer" THEN "addproducer" ELSE "removeproducer"

\* A faulty variant of AddOrRemoveProducer that sends the request before it
\* looks the Producer up.
AddOrRemoveProducerRequestsFirst(method, producerId, resolved) ==
  /\ method \in ProducerMethods
  /\ ObserverCall(method, producerId)

\* rtpObserver.addProducer({ producerId }) and removeProducer({ producerId }),
\* up to the await; resolved tells whether getProducerById() finds a Producer.
AddOrRemoveProducer(method, producerId, resolved) ==
  /\ method \in ProducerMethods
  /\ IF ~resolved
       THEN /\ UNCHANGED <<NotObserver, ovars>>
            /\ trace' = << Throw("Error: Producer not found") >>
       ELSE ObserverCall(method, producerId)

\* addProducer() and removeProducer(), from the engine's response on.
AddOrRemoveProducerResponse(i, method, ok) ==
  /\ method \in ProducerMethods
  /\ ObserverAnswered(i, method, ok)
  /\ UNCHANGED roPaused
  /\ trace' = IF ok THEN << Ev("RtpObserver.observer", ProducerEventOf(method),
                               roCalls[i][2]) >>
                    ELSE << Throw("EngineRequestFailed") >>

\* ------------------------------------------------- close requests settle

CloseMethods == {"router.closeTransport", "transport.closeDataProducer",
                 "router.closeRtpObserver", "worker.closeWebRtcServer"}

\* The resource that issues the close request `method` is closed, so the
\* request may have been issued.
MayHaveRequested(method) ==
  CASE method = "router.closeTransport" -> closed
    [] method = "transport.closeDataProducer" ->
         \E h \in Handles : objs[h].cls = "DataProducer" /\ Built(h) /\ objs[h].closed
    [] method = "router.closeRtpObserver" -> roClosed
    [] method = "worker.closeWebRtcServer" -> srvClosed

\* A faulty variant of CloseRequestSettled without the catch.
CloseRequestSettledUncaught(method, ok) ==
  /\ method \in CloseMethods /\ MayHaveRequested(method)
  /\ trace' = IF ok THEN <<>> ELSE << Throw("EngineRequestFailed") >>
  /\ UNCHANGED <<tvars, registries, allocators, objs, mirrors, svars, ovars, local>>

\* The promise of "this.channel.request(<close method>, ...).catch(() => {})"
\* settles: nothing awaits it, and its rejection runs the empty handler.
CloseRequestSettled(method, ok) ==
  /\ method \in CloseMethods /\ MayHaveRequested(method)
  /\ trace' = <<>>
  /\ UNCHANGED <<tvars, registries, allocators, objs, mirrors, svars, ovars, local>>

\* ---------------------------------------------------- engine notifications

Tuples == {"tuple1", "tuple2"}
Certs == {"cert1", "cert2"}

NotMirrors == <<tvars, registries, allocators, objs, svars, ovars, local>>

\* The channel listener of WebRtcTransport.handleWorkerNotifications(); it
\* runs while the channel still holds a listener for the transport id.
WebRtcNotification(event, data, cert) ==
  /\ kind = "WebRtcTransport" /\ listeners
  /\ UNCHANGED NotMirrors
  /\ CASE event = "icestatechange" ->
            /\ data \in IceStates
            /\ iceState' = data
            /\ UNCHANGED <<iceSelectedTuple, dtlsState, dtlsRemoteCert, sctpState, tuple, rtcpTuple>>
            /\ trace' = << Ev("Transport", "icestatechange", data),
                           Ev("Transport.observer", "icestatechange", data) >>
       [] event = "iceselectedtuplechange" ->
            /\ data \in Tuples
            /\ iceSelectedTuple' = data
            /\ UNCHANGED <<iceState, dtlsState, dtlsRemoteCert, sctpState, tuple, rtcpTuple>>
            /\ trace' = << Ev("Transport", "iceselectedtuplechange", data),
                           Ev("Transport.observer", "iceselectedtuplechange", data) >>
       [] event = "dtlsstatechange" ->
            /\ data \in DtlsStates
            /\ dtlsState' = data
            /\ dtlsRemoteCert' = IF data = "connected" THEN cert ELSE dtlsRemoteCert
            /\ UNCHANGED <<iceState, iceSelectedTuple, sctpState, tuple, rtcpTuple>>
            /\ trace' = << Ev("Transport", "dtlsstatechange", data),
                           Ev("Transport.observer", "dtlsstatechange", data) >>
       [] event = "sctpstatechange" ->
            /\ data \in SctpStates
            /\ sctpState' = data
            /\ UNCHANGED <<iceState, iceSelectedTuple, dtlsState, dtlsRemoteCert, tuple, rtcpTuple>>
            /\ trace' = << Ev("Transport", "sctpstatechange", data),
                           Ev("Transport.observer", "sctpstatechange", data) >>
       [] event = "trace" ->
            /\ data = "trace"
            /\ UNCHANGED mirrors
            /\ trace' = << Ev("Transport", "trace", data),
                           Ev("Transport.observer", "trace", data) >>
       [] OTHER ->
            /\ UNCHANGED mirrors
            /\ trace' = <<>>

\* The channel listener of PlainTransport.handleWorkerNotifications().
PlainNotification(event, data) ==
  /\ kind = "PlainTransport" /\ listeners
  /\ UNCHANGED NotMirrors
  /\ CASE event = "tuple" ->
            /\ data \in Tuples
            /\ tuple' = data
            /\ UNCHANGED <<iceState, iceSelectedTuple, dtlsState, dtlsRemoteCert, sctpState, rtcpTuple>>
            /\ trace' = << Ev("Transport", "tuple", data),
                           Ev("Transport.observer", "tuple", data) >>
       [] event = "rtcptuple" ->
            /\ data \in Tuples
            /\ rtcpTuple' = data
            /\ UNCHANGED <<iceState, iceSelectedTuple, dtlsState, dtlsRemoteCert, sctpState, tuple>>
            /\ trace' = << Ev("Transport", "rtcptuple", data),
                           Ev("Transport.observer", "rtcptuple", data) >>
       [] event = "sctpstatechange" ->
            /\ data \in SctpStates
            /\ sctpState' = data
            /\ UNCHANGED <<iceState, iceSelectedTuple, dtlsState, dtlsRemoteCert, tuple, rtcpTuple>>
            /\ trace' = << Ev("Transport", "sctpstatechange", data),
                           Ev("Transport.observer", "sctpstatechange", data) >>
       [] event = "trace" ->
            /\ data = "trace"
            /\ UNCHANGED mirrors
            /\ trace' = << Ev("Transport", "trace", data),
                           Ev("Transport.observer", "trace", data) >>
       [] OTHER ->
            /\ UNCHANGED mirrors
            /\ trace' = <<>>

\* channel.emit(id, event, data) for an id nobody listens on: no handler runs.
Dropped ==
  /\ UNCHANGED <<tvars, registries, allocators, objs, mirrors, svars, ovars, local>>
  /\ trace' = <<>>

\* A notification for the transport id after removeAllListeners(transportId).
TransportNotificationDropped ==
  /\ kind \in {"WebRtcTransport", "PlainTransport"} /\ ~listeners
  /\ Dropped

\* A notification for the rtpObserver id after removeAllListeners(rtpObserverId).
RtpObserverNotificationDropped ==
  /\ ~roListeners
  /\ Dropped

\* A notification for a dataProducer id: handleWorkerNotifications() of
\* DataProducer subscribes to nothing, before the close as after it.
DataProducerNotification(h) ==
  /\ h \in Handles /\ Built(h) /\ objs[h].cls = "DataProducer"
  /\ Dropped

\* ------------------------------------- connect / restartIce / getStats

\* What the engine can answer: the local DTLS role, fresh ICE parameters.
DtlsRoles == {"client", "server"}
IceParameterSets == {"ice2"}

NotLocal == <<tvars, registries, allocators, objs, mirrors, svars, ovars>>

\* "await this.channel.request(method, this.internal.transportId, ...)": the
\* call up to its await.  None of the three methods looks at #closed.
LocalCall(method) ==
  /\ kind = "WebRtcTransport"
  /\ UNCHANGED <<NotLocal, dtlsRole, iceParameters>>
  /\ localCalls' = Append(localCalls, << method, ~closed >>)
  /\ trace' = << Req(method, 0) >>

\* webRtcTransport.getStats(), connect({ dtlsParameters }) and restartIce()
GetStats == LocalCall("transport.getStats")
Connect == LocalCall("transport.connect")
RestartIce == LocalCall("transport.restartIce")

\* The i-th suspended call is a call of method, and the engine, which handles
\* requests in order, can accept it only if it still had the Transport.
Answered(i, method, ok) ==
  /\ i \in 1..Len(localCalls)
  /\ localCalls[i][1] = method
  /\ ok => localCalls[i][2]
  /\ localCalls' = SubSeq(localCalls, 1, i - 1) \o SubSeq(localCalls, i + 1, Len(localCalls))
  /\ trace' = IF ok THEN <<>> ELSE << Throw("EngineRequestFailed") >>

\* getStats(), from the engine's response on: the data is returned as it is.
GetStatsResponse(i, ok) ==
  /\ Answered(i, "transport.getStats", ok)
  /\ UNCHANGED <<NotLocal, dtlsRole, iceParameters>>

\* A faulty variant of ConnectResponse that takes the transport for connected.
ConnectResponseSetsDtlsState(i, ok, role) ==
  /\ Answered(i, "transport.connect", ok)
  /\ UNCHANGED <<tvars, registries, allocators, objs, svars, ovars, iceParameters>>
  /\ dtlsRole' = IF ok THEN role ELSE dtlsRole
  /\ dtlsState' = IF ok THEN "connected" ELSE dtlsState
  /\ UNCHANGED <<iceState, iceSelectedTuple, dtlsRemoteCert, sctpState, tuple, rtcpTuple>>

\* connect(), from the engine's response on:
\* this.#data.dtlsParameters.role = data.dtlsLocalRole
ConnectResponse(i, ok, role) ==
  /\ Answered(i, "transport.connect", ok)
  /\ UNCHANGED <<NotLocal, iceParameters>>
  /\ dtlsRole' = IF ok THEN role ELSE dtlsRole

\* restartIce(), from the engine's response on:
\* this.#data.iceParameters = iceParameters
RestartIceResponse(i, ok, params) ==
  /\ Answered(i, "transport.restartIce", ok)
  /\ UNCHANGED <<NotLocal, dtlsRole>>
  /\ iceParameters' = IF ok THEN params ELSE iceParameters

\* ------------------------------------------- produce/consume/produceData/consumeData

\* Ids a caller passes explicitly (ProducerOptions.id, DataProducerOptions.id).
ExplicitIds == {101}

\* Producer and DataProducer ids the caller asks to consume; the Router's
\* lookup (getProducerById, getDataProducerById) resolves them or does not.
RouterIds == {201}

\* uuidv4().substr(0, 8)
GeneratedCname == "uuidv4"

Digits == <<"0", "1", "2", "3", "4", "5", "6", "7", "8", "9">>

\* `${n}`: the decimal digits of n, most significant first.
RECURSIVE ToDecimal(_)
ToDecimal(n) ==
  IF n < 10 THEN << Digits[n + 1] >>
  ELSE Append(ToDecimal(n \div 10), Digits[(n % 10) + 1])

\* A faulty variant of MidTruthy that takes no string for a given mid.
MidTruthyNumbersOnly(mid) == mid[1] = "number"

\* ConsumerOptions.mid as <<typeof mid, characters>>.
MidUndefined == <<"undefined", <<>>>>
MidTruthy(mid) == mid[1] = "number" \/ (mid[1] = "string" /\ mid[2] # <<>>)

\* The suspended call and, once the engine has answered, the child it built.
NewCall(cls, id, ref, sid, mid, cname, enc, type) ==
  [cls |-> cls, id |-> id, phase |-> "pending", closed |-> FALSE,
   issuedOpen |-> ~closed, ref |-> ref, sid |-> sid, mid |-> mid,
   cname |-> cname, enc |-> enc, type |-> type]

\* uuidv4(): an id no other call has.
Uuid == Len(objs) + 1

\* A faulty variant of Thrown in which the request has gone out before the
\* failing step runs.
ThrownAfterRequest(error) ==
  /\ trace' = << Req("transport.request", 0), Throw(error) >>
  /\ UNCHANGED objs

\* A create call that throws before its request: nothing is built.
Thrown(error) ==
  /\ trace' = << Throw(error) >>
  /\ UNCHANGED objs

\* A faulty variant of CnameForProducersAfter that takes the caller's CNAME
\* whenever one is given.
CnameForProducersAfterTakesGiven(cname) ==
  IF kind # "PipeTransport"
    THEN IF cname # "" THEN cname
         ELSE IF cnameForProducers = "" THEN GeneratedCname
         ELSE cnameForProducers
    ELSE cnameForProducers

\* #cnameForProducers after the CNAME block of produce().
CnameForProducersAfter(cname) ==
  IF kind # "PipeTransport"
    THEN IF cnameForProducers = "" /\ cname # "" THEN cname
         ELSE IF cnameForProducers = "" THEN GeneratedCname
         ELSE cnameForProducers
    ELSE cnameForProducers

\* A faulty variant of RtcpCnameAfter without the test for PipeTransport.
RtcpCnameAfterAlways(cname) ==
  IF cnameForProducers # "" THEN cnameForProducers
  ELSE IF cname # "" THEN cname
  ELSE GeneratedCname

\* rtpParameters.rtcp.cname after the CNAME block of produce().
RtcpCnameAfter(cname) ==
  IF kind # "PipeTransport" THEN CnameForProducersAfter(cname) ELSE cname

\* rtpParameters.encodings as the caller passes it: << "missing", <<>> >>,
\* << "notarray", <<>> >> for a value that is no array, or << "array", list >>.
\* An encoding is an opaque name; "{}" is the empty encoding.
DefaultEncoding == "{}"
OneEncoding == << "array", << "e1" >> >>

\* A faulty variant of EncodingsAfter that adds the encoding only when the
\* property is missing.
EncodingsAfterMissingOnly(encodings) ==
  IF encodings[1] = "missing" THEN << "array", << DefaultEncoding >> >>
  ELSE encodings

\* rtpParameters.encodings after "if missing or empty encodings, add one".
EncodingsAfter(encodings) ==
  IF \/ encodings[1] = "missing"
     \/ encodings[1] # "array"
     \/ Len(encodings[2]) = 0
    THEN << "array", << DefaultEncoding >> >>
    ELSE encodings

\* transport.produce(), up to the await.
Produce(id, pkind, appDataOk, paramsOk, cname, encodings, mappingOk, consumableOk) ==
  /\ UNCHANGED <<tvars, NotTransport, registries>>
  /\ IF id # None /\ MapHas(producers, id)
       THEN Thrown("TypeError: a Producer with same id already exists") /\ UNCHANGED allocators
     ELSE IF pkind \notin {"audio", "video"}
       THEN Thrown("TypeError: invalid kind") /\ UNCHANGED allocators
     ELSE IF ~appDataOk
       THEN Thrown("TypeError: if given, appData must be an object") /\ UNCHANGED allocators
     ELSE IF ~paramsOk
       THEN Thrown("ortc.validateRtpParameters") /\ UNCHANGED allocators
     ELSE /\ cnameForProducers' = CnameForProducersAfter(cname)
          /\ UNCHANGED <<nextMidForConsumers, sctpStreamIds, nextSctpStreamId>>
          /\ IF ~mappingOk
               THEN Thrown("ortc.getProducerRtpParametersMapping")
             ELSE IF ~consumableOk
               THEN Thrown("ortc.getConsumableRtpParameters")
             ELSE /\ objs' = Append(objs,
                       NewCall("Producer", IF id # None THEN id ELSE Uuid, None,
                               NoStreamId, <<>>, RtcpCnameAfter(cname),
                               EncodingsAfter(encodings), pkind))
                  /\ trace' = << Req("transport.produce", Len(objs) + 1) >>

\* The engine still has the Transport when it handles request h: the channel
\* is FIFO, so it does for the requests issued before the Transport's close.
EngineHasTransport(h) == objs[h].issuedOpen

Pending(h, cls) ==
  /\ h \in Handles
  /\ objs[h].phase = "pending"
  /\ objs[h].cls = cls

\* A faulty variant of Rejected that swallows the rejection and builds the
\* child from no data.
RejectedSwallowed(h) ==
  /\ objs' = [objs EXCEPT ![h].phase = "built"]
  /\ trace' = <<>>
  /\ UNCHANGED <<registries, allocators>>

\* A rejected request: the await throws and the call ends there.
Rejected(h) ==
  /\ objs' = [objs EXCEPT ![h].phase = "rejected"]
  /\ trace' = << Throw("EngineRequestFailed") >>
  /\ UNCHANGED <<registries, allocators>>

\* transport.produce(), from the engine's response on.
ProduceResponse(h, ok) ==
  /\ Pending(h, "Producer")
  /\ ok => EngineHasTransport(h)
  /\ UNCHANGED <<tvars, NotTransport>>
  /\ IF ok
       THEN /\ objs' = [objs EXCEPT ![h].phase = "built"]
            /\ producers' = MapSet(producers, objs[h].id, h)
            /\ trace' = << Ev("Transport", "@newproducer", h),
                           Ev("Transport.observer", "newproducer", h) >>
            /\ UNCHANGED <<consumers, dataProducers, dataConsumers, allocators>>
       ELSE Rejected(h)

\* A faulty variant of NextMidAfter that wraps one allocation late.
NextMidAfterWrapsLate(n) == IF n = MaxMid THEN 0 ELSE n + 1

\* #nextMidForConsumers after "`${this.#nextMidForConsumers++}`" and the wrap test.
NextMidAfter(n) == IF n + 1 = MaxMid THEN 0 ELSE n + 1

\* A faulty variant of Consume that takes the MID before it looks the
\* Producer up.
ConsumeCountsFirst(producerId, appDataOk, mid, capsOk, resolved, negotiated, pipe) ==
  /\ UNCHANGED <<tvars, NotTransport, registries>>
  /\ UNCHANGED <<cnameForProducers, sctpStreamIds, nextSctpStreamId>>
  /\ nextMidForConsumers' =
       IF ~pipe /\ ~MidTruthy(mid) THEN NextMidAfter(nextMidForConsumers)
                                   ELSE nextMidForConsumers
  /\ IF producerId = None
       THEN Thrown("TypeError: missing producerId")
     ELSE IF ~appDataOk
       THEN Thrown("TypeError: if given, appData must be an object")
     ELSE IF MidTruthy(mid) /\ (mid[1] # "string" \/ mid[2] = <<>>)
       THEN Thrown("TypeError: if given, mid must be non empty string")
     ELSE IF ~capsOk
       THEN Thrown("ortc.validateRtpCapabilities")
     ELSE IF ~resolved
       THEN Thrown("Error: Producer not found")
     ELSE IF ~negotiated
       THEN Thrown("ortc.getConsumerRtpParameters")
     ELSE /\ objs' = Append(objs,
               NewCall("Consumer", Uuid, producerId, NoStreamId,
                       IF pipe THEN <<>>
                       ELSE IF MidTruthy(mid) THEN mid[2]
                       ELSE ToDecimal(nextMidForConsumers),
                       "", 0, IF pipe THEN "pipe" ELSE "simple"))
          /\ trace' = << Req("transport.consume", Len(objs) + 1) >>

\* transport.consume(), up to the await.
Consume(producerId, appDataOk, mid, capsOk, resolved, negotiated, pipe) ==
  /\ UNCHANGED <<tvars, NotTransport, registries>>
  /\ UNCHANGED <<cnameForProducers, sctpStreamIds, nextSctpStreamId>>
  /\ IF producerId = None
       THEN Thrown("TypeError: missing producerId") /\ UNCHANGED nextMidForConsumers
     ELSE IF ~appDataOk
       THEN Thrown("TypeError: if given, appData must be an object")
            /\ UNCHANGED nextMidForConsumers
     ELSE IF MidTruthy(mid) /\ (mid[1] # "string" \/ mid[2] = <<>>)
       THEN Thrown("TypeError: if given, mid must be non empty string")
            /\ UNCHANGED nextMidForConsumers
     ELSE IF ~capsOk
       THEN Thrown("ortc.validateRtpCapabilities") /\ UNCHANGED nextMidForConsumers
     ELSE IF ~resolved
       THEN Thrown("Error: Producer not found") /\ UNCHANGED nextMidForConsumers
     ELSE IF ~negotiated
       THEN Thrown("ortc.getConsumerRtpParameters") /\ UNCHANGED nextMidForConsumers
     ELSE /\ nextMidForConsumers' =
               IF ~pipe /\ ~MidTruthy(mid) THEN NextMidAfter(nextMidForConsumers)
                                           ELSE nextMidForConsumers
          /\ objs' = Append(objs,
               NewCall("Consumer", Uuid, producerId, NoStreamId,
                       IF pipe THEN <<>>
                       ELSE IF MidTruthy(mid) THEN mid[2]
                       ELSE ToDecimal(nextMidForConsumers),
                       "", 0, IF pipe THEN "pipe" ELSE "simple"))
          /\ trace' = << Req("transport.consume", Len(objs) + 1) >>

\* transport.consume(), from the engine's response on.
ConsumeResponse(h, ok) ==
  /\ Pending(h, "Consumer")
  /\ ok => EngineHasTransport(h)
  /\ UNCHANGED <<tvars, NotTransport>>
  /\ IF ok
       THEN /\ objs' = [objs EXCEPT ![h].phase = "built"]
            /\ consumers' = MapSet(consumers, objs[h].id, h)
            /\ trace' = << Ev("Transport.observer", "newconsumer", h) >>
            /\ UNCHANGED <<producers, dataProducers, dataConsumers, allocators>>
       ELSE Rejected(h)

\* A faulty variant of ProduceData that validates the SCTP stream parameters
\* on a DirectTransport too.
ProduceDataValidatesOnDirect(id, appDataOk, sctpParamsOk) ==
  /\ UNCHANGED <<tvars, NotTransport, registries, allocators>>
  /\ IF id # None /\ MapHas(dataProducers, id)
       THEN Thrown("TypeError: a DataProducer with same id already exists")
     ELSE IF ~appDataOk
       THEN Thrown("TypeError: if given, appData must be an object")
     ELSE IF ~sctpParamsOk
       THEN Thrown("ortc.validateSctpStreamParameters")
     ELSE /\ objs' = Append(objs,
               NewCall("DataProducer", IF id # None THEN id ELSE Uuid, None,
                       NoStreamId, <<>>, "", 0,
                       IF kind # "DirectTransport" THEN "sctp" ELSE "direct"))
          /\ trace' = << Req("transport.produceData", Len(objs) + 1) >>

\* transport.produceData(), up to the await.
ProduceData(id, appDataOk, sctpParamsOk) ==
  /\ UNCHANGED <<tvars, NotTransport, registries, allocators>>
  /\ IF id # None /\ MapHas(dataProducers, id)
       THEN Thrown("TypeError: a DataProducer with same id already exists")
     ELSE IF ~appDataOk
       THEN Thrown("TypeError: if given, appData must be an object")
     ELSE IF kind # "DirectTransport" /\ ~sctpParamsOk
       THEN Thrown("ortc.validateSctpStreamParameters")
     ELSE /\ objs' = Append(objs,
               NewCall("DataProducer", IF id # None THEN id ELSE Uuid, None,
                       NoStreamId, <<>>, "", 0,
                       IF kind # "DirectTransport" THEN "sctp" ELSE "direct"))
          /\ trace' = << Req("transport.produceData", Len(objs) + 1) >>

\* transport.produceData(), from the engine's response on.
ProduceDataResponse(h, ok) ==
  /\ Pending(h, "DataProducer")
  /\ ok => EngineHasTransport(h)
  /\ UNCHANGED <<tvars, NotTransport>>
  /\ IF ok
       THEN /\ objs' = [objs EXCEPT ![h].phase = "built"]
            /\ dataProducers' = MapSet(dataProducers, objs[h].id, h)
            /\ trace' = << Ev("Transport", "@newdataproducer", h),
                           Ev("Transport.observer", "newdataproducer", h) >>
            /\ UNCHANGED <<producers, consumers, dataConsumers, allocators>>
       ELSE Rejected(h)

\* The Buffer getNextSctpStreamId() scans: the existing one, or the one it
\* allocates, Buffer.alloc(numStreams, 0).
BufferOrAlloc ==
  IF sctpStreamIds = NoBuffer THEN [i \in 1..mis |-> 0] ELSE sctpStreamIds[1]

\* The idx values of the loop of getNextSctpStreamId() that find a free id.
FreeOffsets(buf) ==
  {idx \in 0..(Len(buf) - 1) : buf[((nextSctpStreamId + idx) % Len(buf)) + 1] = 0}

\* A faulty variant of GetNextSctpStreamId that returns the cursor's id unchecked.
GetNextSctpStreamIdUnchecked(buf) == nextSctpStreamId % Len(buf)

\* A faulty variant of GetNextSctpStreamId that wraps around silently when no id
\* is free.
GetNextSctpStreamIdWraps(buf) ==
  IF FreeOffsets(buf) = {} THEN nextSctpStreamId % Len(buf)
  ELSE LET idx == CHOOSE i \in FreeOffsets(buf) : \A j \in FreeOffsets(buf) : i <= j
       IN (nextSctpStreamId + idx) % Len(buf)

\* A faulty variant of GetNextSctpStreamId that scans from index 0 whatever
\* the cursor is.
GetNextSctpStreamIdFromZero(buf) ==
  IF FreeOffsets(buf) = {} THEN NoStreamId
  ELSE CHOOSE i \in 0..(Len(buf) - 1) :
         buf[i + 1] = 0 /\ \A j \in 0..(i - 1) : buf[j + 1] # 0

\* getNextSctpStreamId(): the id it returns, NoStreamId when it throws
\* 'no sctpStreamId available'.
GetNextSctpStreamId(buf) ==
  IF FreeOffsets(buf) = {} THEN NoStreamId
  ELSE LET idx == CHOOSE i \in FreeOffsets(buf) : \A j \in FreeOffsets(buf) : i <= j
       IN (nextSctpStreamId + idx) % Len(buf)

\* transport.consumeData(), up to the await.
ConsumeData(dataProducerId, appDataOk, resolved) ==
  /\ UNCHANGED <<tvars, NotTransport, registries>>
  /\ UNCHANGED <<cnameForProducers, nextMidForConsumers>>
  /\ IF dataProducerId = None
       THEN Thrown("TypeError: missing dataProducerId")
            /\ UNCHANGED <<sctpStreamIds, nextSctpStreamId>>
     ELSE IF ~appDataOk
       THEN Thrown("TypeError: if given, appData must be an object")
            /\ UNCHANGED <<sctpStreamIds, nextSctpStreamId>>
     ELSE IF ~resolved
       THEN Thrown("Error: DataProducer not found")
            /\ UNCHANGED <<sctpStreamIds, nextSctpStreamId>>
     ELSE IF kind = "DirectTransport"
       THEN /\ objs' = Append(objs,
                 NewCall("DataConsumer", Uuid, dataProducerId, NoStreamId,
                         <<>>, "", 0, "direct"))
            /\ trace' = << Req("transport.consumeData", Len(objs) + 1) >>
            /\ UNCHANGED <<sctpStreamIds, nextSctpStreamId>>
     ELSE IF mis = None
       THEN Thrown("TypeError: missing sctpParameters.MIS")
            /\ UNCHANGED <<sctpStreamIds, nextSctpStreamId>>
     ELSE LET buf == BufferOrAlloc
              sid == GetNextSctpStreamId(buf)
          IN IF sid = NoStreamId
               THEN /\ Thrown("Error: no sctpStreamId available")
                    /\ sctpStreamIds' = << buf >>
                    /\ UNCHANGED nextSctpStreamId
               ELSE /\ sctpStreamIds' = << SetStreamId(buf, sid, 1) >>
                    /\ nextSctpStreamId' = sid + 1
                    /\ objs' = Append(objs,
                         NewCall("DataConsumer", Uuid, dataProducerId, sid,
                                 <<>>, "", 0, "sctp"))
                    /\ trace' = << Req("transport.consumeData", Len(objs) + 1) >>

\* transport.consumeData(), from the engine's response on.
ConsumeDataResponse(h, ok) ==
  /\ Pending(h, "DataConsumer")
  /\ ok => EngineHasTransport(h)
  /\ UNCHANGED <<tvars, NotTransport>>
  /\ IF ok
       THEN /\ objs' = [objs EXCEPT ![h].phase = "built"]
            /\ dataConsumers' = MapSet(dataConsumers, objs[h].id, h)
            /\ trace' = << Ev("Transport.observer", "newdataconsumer", h) >>
            /\ UNCHANGED <<producers, consumers, dataProducers, allocators>>
       ELSE Rejected(h)

\* -------------------------------------------------------- specifications

\* The state the Router's factory leaves behind: a Transport of class k built
\* with sctpParameters.MIS = m (None: no SCTP), no children, the counters at
\* their field initialisers, an open WebRtcServer and an open RtpObserver.
Constructed(k, m) ==
  /\ kind = k
  /\ closed = FALSE
  /\ listeners = (k \in {"WebRtcTransport", "PlainTransport"})
  /\ mis = m
  /\ producers = <<>>
  /\ consumers = <<>>
  /\ dataProducers = <<>>
  /\ dataConsumers = <<>>
  /\ cnameForProducers = ""
  /\ sctpStreamIds = NoBuffer
  /\ nextSctpStreamId = 0
  /\ objs = <<>>
  /\ iceState = "new"
  /\ iceSelectedTuple = Undefined
  /\ dtlsState = "new"
  /\ dtlsRemoteCert = Undefined
  /\ sctpState = IF m # None /\ k \in {"WebRtcTransport", "PlainTransport"}
                   THEN "new" ELSE Undefined
  /\ tuple = "tuple1"
  /\ rtcpTuple = Undefined
  /\ srvClosed = FALSE
  /\ webRtcTransports = {}
  /\ closeListeners = 0
  /\ roClosed = FALSE
  /\ roListeners = TRUE
  /\ roPaused = FALSE
  /\ roCalls = <<>>
  /\ dtlsRole = "auto"
  /\ iceParameters = "ice1"
  /\ localCalls = <<>>
  /\ trace = <<>>

\* The MIS values a Transport of class k can have been constructed with.
MisOf(k, most) == IF k = "DirectTransport" THEN {None} ELSE {None} \cup 1..most

\* Spec: each class of Transport, with SCTP wherever the class can have it.
Init ==
  /\ \E k \in Kinds : Constructed(k, IF k = "DirectTransport" THEN None ELSE 1)
  /\ nextMidForConsumers = 0

CanCall(most) == Len(objs) < most

\* The three close triggers of the Transport; the third one runs when the
\* WebRtcServer that handles the Transport is closed.
Triggers ==
  \/ Close
  \/ RouterClosed
  \/ WebRtcServerClosed
  \/ WebRtcServerClose

ChildClosings ==
  \E h \in Handles :
    \/ ProducerClose(h)
    \/ ConsumerClose(h)
    \/ ConsumerProducerClosed(h)
    \/ DataProducerClose(h)
    \/ DataConsumerClose(h)
    \/ DataConsumerDataProducerClosed(h)

Responses ==
  \E h \in Handles : \E ok \in BOOLEAN :
    \/ ProduceResponse(h, ok)
    \/ ConsumeResponse(h, ok)
    \/ ProduceDataResponse(h, ok)
    \/ ConsumeDataResponse(h, ok)

\* The create calls of Spec: well-formed options, ids generated.
Calls ==
  /\ CanCall(MaxCalls)
  /\ \/ Produce(None, "video", TRUE, TRUE, "a", OneEncoding, TRUE, TRUE)
     \/ \E pid \in RouterIds :
          Consume(pid, TRUE, MidUndefined, TRUE, TRUE, TRUE, FALSE)
     \/ ProduceData(None, TRUE, TRUE)
     \/ \E dpid \in RouterIds :
          ConsumeData(dpid, TRUE, TRUE)

\* The resource graph: the Transport's close triggers, the create calls and
\* their responses, and the children's own closes.
Next ==
  \/ Triggers
  \/ HandleWebRtcTransport
  \/ ChildClosings
  \/ Calls
  \/ Responses

Spec == Init /\ [][Next]_vars

\* SpecClosings: every closing operation of every resource, on a Transport
\* that owns DataProducers.
Closings ==
  \/ Triggers
  \/ WebRtcServerWorkerClosed
  \/ RtpObserverClose
  \/ RtpObserverRouterClosed

DataProducerSteps ==
  \/ CanCall(MaxCalls) /\ ProduceData(None, TRUE, TRUE)
  \/ \E h \in Handles : \E ok \in BOOLEAN : ProduceDataResponse(h, ok)
  \/ \E h \in Handles : DataProducerClose(h)

NextClosings ==
  \/ Closings
  \/ HandleWebRtcTransport
  \/ DataProducerSteps

SpecClosings == Init /\ [][NextClosings]_vars

\* SpecCloseRequests: SpecClosings with the engine's answers to the close
\* requests.
CloseRequestsSettle ==
  \E method \in CloseMethods : \E ok \in BOOLEAN : CloseRequestSettled(method, ok)

NextCloseRequests ==
  \/ NextClosings
  \/ CloseRequestsSettle

SpecCloseRequests == Init /\ [][NextCloseRequests]_vars

\* SpecMirror: a WebRtcTransport or PlainTransport, with or without SCTP, the
\* engine's notifications for it and its close triggers.
InitMirror ==
  /\ \E k \in {"WebRtcTransport", "PlainTransport"} : \E m \in {None, 1} :
       Constructed(k, m)
  /\ nextMidForConsumers = 0

Notifications ==
  \/ \E s \in IceStates : WebRtcNotification("icestatechange", s, Undefined)
  \/ \E t \in Tuples : WebRtcNotification("iceselectedtuplechange", t, Undefined)
  \/ \E s \in DtlsStates : \E c \in Certs : WebRtcNotification("dtlsstatechange", s, c)
  \/ \E s \in SctpStates : WebRtcNotification("sctpstatechange", s, Undefined)
  \/ \E e \in {"trace", "bogus"} : WebRtcNotification(e, "trace", Undefined)
  \/ \E t \in Tuples : PlainNotification("tuple", t)
  \/ \E t \in Tuples : PlainNotification("rtcptuple", t)
  \/ \E s \in SctpStates : PlainNotification("sctpstatechange", s)
  \/ \E e \in {"trace", "bogus"} : PlainNotification(e, "trace")

NextMirror ==
  \/ Triggers
  \/ HandleWebRtcTransport
  \/ Notifications

SpecMirror == InitMirror /\ [][NextMirror]_vars

\* SpecSctp: the stream-id allocator under consumeData() calls, their
\* responses, the DataConsumers' closes and the Transport's close.
InitSctp ==
  /\ \E k \in Kinds : \E m \in MisOf(k, MaxMIS) : Constructed(k, m)
  /\ nextMidForConsumers = 0

NextSctp ==
  \/ CanCall(MaxMIS + 1) /\ \E dpid \in {None} \cup RouterIds, ok \in [1..2 -> BOOLEAN] :
       ConsumeData(dpid, ok[1], ok[2])
  \/ \E h \in Handles : \E ok \in BOOLEAN : ConsumeDataResponse(h, ok)
  \/ \E h \in Handles : DataConsumerClose(h)
  \/ \E h \in Handles : DataConsumerDataProducerClosed(h)
  \/ Close

SpecSctp == InitSctp /\ [][NextSctp]_vars

\* SpecMid: the MID counter under consume() calls.  The Transport is either
\* new or has already served MaxMid - MidWindow consume() calls whose
\* Consumers are closed.
InitMid ==
  /\ Constructed("WebRtcTransport", None)
  /\ nextMidForConsumers \in {0, MaxMid - MidWindow}

NextMid ==
  \/ CanCall(MidWindow + 1) /\ \E pid \in {None} \cup RouterIds, fail \in 0..4,
         mid \in {MidUndefined, <<"string", <<>>>>, <<"string", <<"m">>>>, <<"number", <<"5">>>>},
         pipe \in BOOLEAN :
       Consume(pid, fail # 1, mid, fail # 2, fail # 3, fail # 4, pipe)
  \/ \E h \in Handles : \E ok \in BOOLEAN : ConsumeResponse(h, ok)
  \/ \E h \in Handles : ConsumerClose(h)

SpecMid == InitMid /\ [][NextMid]_vars

\* SpecCname: produce() calls that supply one CNAME or another or none, on a
\* Transport of each class; a call can fail in any of its ortc steps.
Cnames == {"", "a", "b"}

InitCname ==
  /\ \E k \in Kinds : Constructed(k, None)
  /\ nextMidForConsumers = 0

NextCname ==
  \/ CanCall(MaxCalls) /\ \E cname \in Cnames, fail \in 0..3 :
       Produce(None, "video", TRUE, fail # 1, cname, OneEncoding, fail # 2, fail # 3)
  \/ \E h \in Handles : \E ok \in BOOLEAN : ProduceResponse(h, ok)
  \/ \E h \in Handles : ProducerClose(h)

SpecCname == InitCname /\ [][NextCname]_vars

\* SpecIds: produce() and produceData() calls that pass an explicit id or
\* none, their responses and the closes of the children they build.
NextIds ==
  \/ CanCall(MaxCalls) /\ \E id \in {None} \cup ExplicitIds :
       \/ Produce(id, "video", TRUE, TRUE, "", OneEncoding, TRUE, TRUE)
       \/ ProduceData(id, TRUE, TRUE)
  \/ \E h \in Handles : \E ok \in BOOLEAN :
       \/ ProduceResponse(h, ok)
       \/ ProduceDataResponse(h, ok)
  \/ \E h \in Handles : ProducerClose(h) \/ DataProducerClose(h)

SpecIds == InitCname /\ [][NextIds]_vars

\* SpecErrors: the four create calls with every way their arguments and their
\* ortc steps can fail, on a Transport of each class with MIS = 1 or without
\* SCTP, and the engine's answers.
InitErrors ==
  /\ \E k \in Kinds : \E m \in MisOf(k, 1) : Constructed(k, m)
  /\ nextMidForConsumers = 0

Mids == {MidUndefined, <<"string", <<"m">>>>, <<"number", <<"5">>>>}

ProduceCalls ==
  \E id \in {None} \cup ExplicitIds, pkind \in {"video", "bogus"}, fail \in 0..4 :
    Produce(id, pkind, fail # 1, fail # 2, "a", OneEncoding, fail # 3, fail # 4)

ConsumeCalls ==
  \E pid \in {None} \cup RouterIds, mid \in Mids, fail \in 0..4 :
    Consume(pid, fail # 1, mid, fail # 2, fail # 3, fail # 4, FALSE)

ProduceDataCalls ==
  \E id \in {None} \cup ExplicitIds, ok \in [1..2 -> BOOLEAN] :
    ProduceData(id, ok[1], ok[2])

ConsumeDataCalls ==
  \E dpid \in {None} \cup RouterIds, ok \in [1..2 -> BOOLEAN] :
    ConsumeData(dpid, ok[1], ok[2])

EngineAnswers ==
  \E h \in Handles : \E ok \in BOOLEAN :
    \/ ProduceResponse(h, ok)
    \/ ConsumeResponse(h, ok)
    \/ ProduceDataResponse(h, ok)
    \/ ConsumeDataResponse(h, ok)

NextErrors ==
  \/ CanCall(MaxCalls) /\ ProduceCalls
  \/ CanCall(MaxCalls) /\ ConsumeCalls
  \/ CanCall(MaxCalls) /\ ProduceDataCalls
  \/ CanCall(MaxCalls) /\ ConsumeDataCalls
  \/ EngineAnswers

SpecErrors == InitErrors /\ [][NextErrors]_vars

\* ---------------------------------------------------- listeners that throw

\* The events of the closing cascades that application listeners subscribe
\* to, as <<emitter, name>>: the public ones and the observers' ones.
ListenedEvents ==
  {<< cls, "transportclose" >> : cls \in {"Producer", "Consumer", "DataProducer", "DataConsumer"}}
  \cup {<< o, "close" >> : o \in {"Producer.observer", "Consumer.observer",
                                   "DataProducer.observer", "DataConsumer.observer",
                                   "Transport.observer", "WebRtcServer.observer"}}
  \cup {<< "Transport", "routerclose" >>, << "Transport", "listenserverclose" >>,
        << "WebRtcServer.observer", "webrtctransportunhandled" >>}

\* The events the code emits with this.emit(...).
PrivateSignals ==
  {"@close", "@producerclose", "@dataproducerclose", "@listenserverclose",
   "@newproducer", "@newdataproducer"}

\* A faulty variant of EmitMethod in which transportClosed() uses emit() for
\* 'transportclose'.
EmitMethodPlainTransportClose(name) ==
  IF name \in PrivateSignals \cup {"transportclose"} THEN "emit" ELSE "safeEmit"

\* How the code emits the event called name: the private signals with emit(),
\* every public and observer event with safeEmit().
EmitMethod(name) ==
  IF name \in PrivateSignals THEN "emit" ELSE "safeEmit"

\* Whether what a listener throws leaves the emitting call: it leaves emit(),
\* and safeEmit() catches it.
Propagates(method) == method = "emit"

\* The first output of events at which a listener of throwing throws out of
\* the handler, 0 if the handler runs to its end.
FirstEscape(events, throwing) ==
  LET escapes == {i \in 1..Len(events) :
                    /\ << events[i][1], events[i][2] >> \in throwing
                    /\ Propagates(EmitMethod(events[i][2]))}
  IN  IF escapes = {} THEN 0
      ELSE CHOOSE i \in escapes : \A j \in escapes : i <= j

\* The outputs of a handler that an exception leaves at output i.
Interrupted(events, i) == SubSeq(events, 1, i) \o << Throw("listener") >>

\* The Transport after a closing method that an exception leaves at output i
\* of events, lead outputs coming before the loops: the flag and the
\* subscriptions are set first, a child is closed once its 'transportclose'
\* is out, and a registry is cleared once its loop is over.
TransportInterrupted(events, i, lead, producerEvent, dataProducerEvent) ==
  LET endProducers == lead + Len(RegistryClosedEvents(producers, producerEvent))
      endConsumers == endProducers + Len(RegistryClosedEvents(consumers, ""))
      endDataProducers ==
        endConsumers + Len(RegistryClosedEvents(dataProducers, dataProducerEvent))
      endDataConsumers == endDataProducers + Len(RegistryClosedEvents(dataConsumers, ""))
  IN  /\ closed' = TRUE
      /\ listeners' = FALSE
      /\ objs' = [h \in Handles |->
                    IF \E j \in 1..i : events[j] = Ev(objs[h].cls, "transportclose", h)
                      THEN TransportClosedOf(objs[h]) ELSE objs[h]]
      /\ producers' = IF i > endProducers THEN <<>> ELSE producers
      /\ consumers' = IF i > endConsumers THEN <<>> ELSE consumers
      /\ dataProducers' = IF i > endDataProducers THEN <<>> ELSE dataProducers
      /\ dataConsumers' = IF i > endDataConsumers THEN <<>> ELSE dataConsumers
      /\ UNCHANGED <<kind, mis, allocators>>

\* transport.close() while the listeners of throwing throw.
CloseListened(throwing) ==
  LET i == FirstEscape(TransportCloseEvents, throwing)
  IN  IF closed \/ i = 0 THEN Close
      ELSE /\ UNCHANGED <<ovars, local>>
           /\ CASE kind = "WebRtcTransport" -> WebRtcMirrorsClosed
                [] kind = "PlainTransport" -> PlainMirrorsClosed
                [] OTHER -> UNCHANGED mirrors
           /\ TransportInterrupted(TransportCloseEvents, i, 1,
                                   "@producerclose", "@dataproducerclose")
           /\ webRtcTransports' =
                IF /\ closeListeners > 0
                   /\ \E j \in 1..(i - 1) : TransportCloseEvents[j] = Ev("Transport", "@close", 0)
                  THEN webRtcTransports \ {TransportId}
                  ELSE webRtcTransports
           /\ UNCHANGED <<srvClosed, closeListeners>>
           /\ trace' = Interrupted(TransportCloseEvents, i)

\* transport.routerClosed() while the listeners of throwing throw.
RouterClosedListened(throwing) ==
  LET i == FirstEscape(TransportRouterClosedEvents, throwing)
  IN  IF closed \/ i = 0 THEN RouterClosed
      ELSE /\ UNCHANGED <<svars, ovars, local>>
           /\ CASE kind = "WebRtcTransport" -> WebRtcMirrorsClosed
                [] kind = "PlainTransport" -> PlainMirrorsClosed
                [] OTHER -> UNCHANGED mirrors
           /\ TransportInterrupted(TransportRouterClosedEvents, i, 0, "", "")
           /\ trace' = Interrupted(TransportRouterClosedEvents, i)

\* What webRtcServer.close() requests and emits past its closed guard.
WebRtcServerCloseEvents ==
  << Req("worker.closeWebRtcServer", 0) >>
  \o ServerClosesTransportEvents
  \o << Ev("WebRtcServer", "@close", 0) >>
  \o << Ev("WebRtcServer.observer", "close", 0) >>

\* webRtcServer.close() while the listeners of throwing throw: an exception
\* that leaves listenServerClosed() leaves close() too, before clear().
WebRtcServerCloseListened(throwing) ==
  LET i == FirstEscape(WebRtcServerCloseEvents, throwing)
  IN  IF srvClosed \/ i = 0 THEN WebRtcServerClose
      ELSE /\ UNCHANGED <<ovars, local, mirrors, closeListeners>>
           /\ srvClosed' = TRUE
           /\ IF TransportId \in webRtcTransports /\ ~closed
                THEN TransportInterrupted(WebRtcServerCloseEvents, i, 1, "", "")
                ELSE UNCHANGED <<tvars, registries, allocators, objs>>
           /\ webRtcTransports' = IF i = Len(WebRtcServerCloseEvents)
                                    THEN {} ELSE webRtcTransports
           /\ trace' = Interrupted(WebRtcServerCloseEvents, i)

\* SpecLocal: an open or closed WebRtcTransport, the local operations against
\* it, one at a time, one create call, and the engine's notifications.
InitLocal ==
  /\ Constructed("WebRtcTransport", 1)
  /\ nextMidForConsumers = 0

LocalOperations ==
  \/ localCalls = <<>> /\ (GetStats \/ Connect \/ RestartIce)
  \/ \E i \in 1..Len(localCalls) : \E ok \in BOOLEAN :
       \/ GetStatsResponse(i, ok)
       \/ \E role \in DtlsRoles : ConnectResponse(i, ok, role)
       \/ \E params \in IceParameterSets : RestartIceResponse(i, ok, params)

CreateOperations ==
  \/ objs = <<>> /\ Produce(None, "video", TRUE, TRUE, "a", OneEncoding, TRUE, TRUE)
  \/ objs = <<>> /\ \E pid \in RouterIds :
       Consume(pid, TRUE, MidUndefined, TRUE, TRUE, TRUE, FALSE)
  \/ \E h \in Handles : \E ok \in BOOLEAN :
       ProduceResponse(h, ok) \/ ConsumeResponse(h, ok)

WebRtcNotifications ==
  \/ \E s \in {"connected"} : WebRtcNotification("icestatechange", s, Undefined)
  \/ \E t \in {"tuple2"} : WebRtcNotification("iceselectedtuplechange", t, Undefined)
  \/ \E s \in {"connecting", "connected"} : \E c \in {"cert1"} :
       WebRtcNotification("dtlsstatechange", s, c)
  \/ \E s \in {"connected"} : WebRtcNotification("sctpstatechange", s, Undefined)

NextLocal ==
  \/ LocalOperations
  \/ CreateOperations
  \/ WebRtcNotifications
  \/ Close

SpecLocal == InitLocal /\ [][NextLocal]_vars

\* SpecUnsubscribe: a WebRtcTransport or PlainTransport, one DataProducer and
\* an RtpObserver, every way to close each of them, and the engine's
\* notifications before and after.
HeardNotifications ==
  \/ WebRtcNotification("icestatechange", "connected", Undefined)
  \/ WebRtcNotification("dtlsstatechange", "connected", "cert1")
  \/ WebRtcNotification("sctpstatechange", "connected", Undefined)
  \/ PlainNotification("tuple", "tuple2")
  \/ PlainNotification("sctpstatechange", "connected")

DroppedNotifications ==
  \/ TransportNotificationDropped
  \/ RtpObserverNotificationDropped
  \/ \E h \in Handles : DataProducerNotification(h)

OneDataProducer ==
  \/ objs = <<>> /\ ProduceData(None, TRUE, TRUE)
  \/ \E h \in Handles : \E ok \in BOOLEAN : ProduceDataResponse(h, ok)
  \/ \E h \in Handles : DataProducerClose(h)

NextUnsubscribe ==
  \/ Closings
  \/ HandleWebRtcTransport
  \/ OneDataProducer
  \/ HeardNotifications
  \/ DroppedNotifications

SpecUnsubscribe == InitMirror /\ [][NextUnsubscribe]_vars

\* SpecListeners: a WebRtcTransport with at most one Producer, one Consumer
\* and one DataProducer, closed by each trigger while no listener of the
\* application throws, while one does, and while every one does.
ListenerSets ==
  {{}, ListenedEvents, {<< "DataProducer", "transportclose" >>},
   {<< "Transport.observer", "close" >>}}

CascadesListened ==
  \E throwing \in ListenerSets :
    \/ CloseListened(throwing)
    \/ RouterClosedListened(throwing)
    \/ WebRtcServerCloseListened(throwing)

NoneOf(cls) == \A h \in Handles : objs[h].cls # cls

OneOfEach ==
  \/ NoneOf("Producer") /\ Produce(None, "video", TRUE, TRUE, "a", OneEncoding, TRUE, TRUE)
  \/ NoneOf("Consumer") /\ \E pid \in RouterIds :
       Consume(pid, TRUE, MidUndefined, TRUE, TRUE, TRUE, FALSE)
  \/ NoneOf("DataProducer") /\ ProduceData(None, TRUE, TRUE)
  \/ \E h \in Handles : \E ok \in BOOLEAN :
       \/ ProduceResponse(h, ok)
       \/ ConsumeResponse(h, ok)
       \/ ProduceDataResponse(h, ok)

NextListeners ==
  \/ CascadesListened
  \/ HandleWebRtcTransport
  \/ OneOfEach

SpecListeners == InitLocal /\ [][NextListeners]_vars

\* SpecObserver: an RtpObserver, its addProducer() and removeProducer() calls
\* for a Producer the Router knows or does not know, and the Transport's
\* Producer beside them.
ObserverProducerCalls ==
  \/ Len(roCalls) < MaxCalls /\ \E method \in ProducerMethods :
       \E pid \in RouterIds : \E resolved \in BOOLEAN :
         AddOrRemoveProducer(method, pid, resolved)
  \/ \E i \in 1..Len(roCalls) : \E method \in ProducerMethods : \E ok \in BOOLEAN :
       AddOrRemoveProducerResponse(i, method, ok)

OneProducer ==
  \/ NoneOf("Producer") /\ Produce(None, "video", TRUE, TRUE, "a", OneEncoding, TRUE, TRUE)
  \/ \E h \in Handles : \E ok \in BOOLEAN : ProduceResponse(h, ok)

NextObserver ==
  \/ ObserverProducerCalls
  \/ OneProducer
  \/ RtpObserverClose
  \/ RtpObserverRouterClosed

SpecObserver == InitLocal /\ [][NextObserver]_vars

\* SpecPause: an RtpObserver and its pause() and resume() calls, overlapping
\* or not.
PauseResumeCalls ==
  \/ Len(roCalls) < MaxCalls /\ (RtpObserverPause \/ RtpObserverResume)
  \/ \E i \in 1..Len(roCalls) : \E ok \in BOOLEAN :
       RtpObserverPauseResponse(i, ok) \/ RtpObserverResumeResponse(i, ok)

NextPause ==
  \/ PauseResumeCalls
  \/ RtpObserverClose

SpecPause == InitLocal /\ [][NextPause]_vars

\* SpecEncodings: produce() calls whose rtpParameters.encodings is missing, no
\* array, an empty array or an array of encodings, on a Transport of any kind.
EncodingInputs ==
  { << "missing", <<>> >>, << "notarray", <<>> >>, << "array", <<>> >>,
    << "array", << "e1" >> >>, << "array", << "e1", "e2" >> >> }

EncodingCalls ==
  \/ Len(objs) < MaxCalls /\ \E encodings \in EncodingInputs : \E fail \in 0..2 :
       Produce(None, "video", TRUE, TRUE, "a", encodings, fail # 1, fail # 2)
  \/ \E h \in Handles : \E ok \in BOOLEAN : ProduceResponse(h, ok)

NextEncodings ==
  \/ EncodingCalls
  \/ Close

SpecEncodings == Init /\ [][NextEncodings]_vars

\* SpecData: produceData() and consumeData() on each class of Transport, with
\* SCTP stream parameters that validate or do not, and the DataConsumers'
\* closes.
DataCalls ==
  \/ CanCall(MaxCalls) /\ \E sctpParamsOk \in BOOLEAN : ProduceData(None, TRUE, sctpParamsOk)
  \/ CanCall(MaxCalls) /\ \E dpid \in RouterIds : ConsumeData(dpid, TRUE, TRUE)
  \/ \E h \in Handles : \E ok \in BOOLEAN : ProduceDataResponse(h, ok)
  \/ \E h \in Handles : \E ok \in BOOLEAN : ConsumeDataResponse(h, ok)

NextData ==
  \/ DataCalls
  \/ \E h \in Handles : DataConsumerClose(h)
  \/ \E h \in Handles : DataConsumerDataProducerClosed(h)
  \/ Close

SpecData == InitSctp /\ [][NextData]_vars

\* SpecSctpState: a WebRtcTransport or PlainTransport built with or without
\* SCTP, its close triggers and the engine's SCTP state notifications.  The
\* engine reports an SCTP state only for a Transport that has an SCTP
\* association.
EngineHasSctp == mis # None

SctpStateNotifications ==
  /\ EngineHasSctp
  /\ \E s \in SctpStates :
       \/ WebRtcNotification("sctpstatechange", s, Undefined)
       \/ PlainNotification("sctpstatechange", s)

OtherNotifications ==
  \/ WebRtcNotification("icestatechange", "connected", Undefined)
  \/ WebRtcNotification("dtlsstatechange", "connected", "cert1")
  \/ PlainNotification("tuple", "tuple2")

NextSctpState ==
  \/ Triggers
  \/ HandleWebRtcTransport
  \/ SctpStateNotifications
  \/ OtherNotifications

SpecSctpState == InitMirror /\ [][NextSctpState]_vars

\* ------------------------------------------------------------------ claims

Empty(m) == m = <<>>
AllRegistriesEmpty ==
  Empty(producers) /\ Empty(consumers) /\ Empty(dataProducers) /\ Empty(dataConsumers)

\* The events of `tr` named `name` on source `src`.
Count(tr, src, name) ==
  Cardinality({i \in 1..Len(tr) : tr[i][1] = src /\ tr[i][2] = name})
CountFor(tr, src, name, h) ==
  Cardinality({i \in 1..Len(tr) : tr[i][1] = src /\ tr[i][2] = name /\ tr[i][3] = h})

\* C1: in every reachable state a closed Transport has four empty registries and
\* no child that is built and not closed; in particular a child whose request
\* was issued before the close and answered after it is not left registered
\* and open.
C1_ClosedTransportOwnsNothing ==
  closed =>
    /\ AllRegistriesEmpty
    /\ \A h \in Handles : Built(h) => objs[h].closed

\* C2: a closed WebRtcTransport has iceState and dtlsState 'closed', sctpState
\* 'closed' when it has one, and no selected tuple, whichever trigger closed it.
C2_ClosedTransportMirrorsClosed ==
  (kind = "WebRtcTransport" /\ closed) =>
    /\ iceState = "closed"
    /\ dtlsState = "closed"
    /\ sctpState \in {Undefined, "closed"}
    /\ iceSelectedTuple = Undefined

\* A call of one of the Transport's three close triggers (the third either
\* through WebRtcTransport.webRtcServerClosed() or through the WebRtcServer's
\* close(), for a Transport the server handles).
TriggerStep ==
  \/ Close
  \/ RouterClosed
  \/ WebRtcServerClosed
  \/ (WebRtcServerClose /\ ~srvClosed /\ TransportId \in webRtcTransports)

\* C3: when close(), routerClosed() or listenServerClosed() returns, every
\* child that was registered when the call started is closed, its
\* transportClosed() ran exactly once, and the four registries are empty.
C3_CascadingClose ==
  [][TriggerStep =>
       /\ AllRegistriesEmpty'
       /\ \A h \in Handles : Registered(h) =>
            /\ objs'[h].closed
            /\ CountFor(trace', objs[h].cls, "transportclose", h) = 1]_vars

\* C4: the closed flag of the Transport (of each class), of every DataProducer,
\* of the RtpObserver and of the WebRtcServer is false when the resource is
\* constructed and, once true, is true in every later state.
C4_ClosedIsOneWay ==
  [][/\ closed => closed'
     /\ srvClosed => srvClosed'
     /\ roClosed => roClosed'
     /\ \A h \in Handles :
          /\ objs[h].closed => objs'[h].closed
          /\ (~Built(h) /\ objs'[h].phase = "built") => ~objs'[h].closed
     /\ \A h \in 1..Len(objs') : h \notin Handles => ~objs'[h].closed]_vars

\* Every resource is closed, one of them a DataProducer, and a further closing
\* call has just returned.
C4_Witness ==
  /\ closed /\ srvClosed /\ roClosed
  /\ \E h \in Handles : Built(h) /\ objs[h].cls = "DataProducer" /\ objs[h].closed
  /\ trace = <<>>

\* A call that changes nothing, requests nothing and emits nothing.
SilentNoOp ==
  /\ trace' = <<>>
  /\ UNCHANGED <<tvars, registries, allocators, objs, mirrors, svars, ovars, local>>

\* C5: a closing call on a resource that is already closed changes no state,
\* issues no request and emits no event: close(), routerClosed() and
\* listenServerClosed() of a Transport, close() and workerClosed() of a
\* WebRtcServer, close() and routerClosed() of an RtpObserver, close() of a
\* DataProducer; and a WebRtcServer closing over a closed Transport leaves
\* that Transport alone.
C5_CloseIsIdempotent ==
  [][/\ (closed /\ (Close \/ RouterClosed \/ WebRtcServerClosed)) => SilentNoOp
     /\ (srvClosed /\ (WebRtcServerClose \/ WebRtcServerWorkerClosed)) => SilentNoOp
     /\ (roClosed /\ (RtpObserverClose \/ RtpObserverRouterClosed)) => SilentNoOp
     /\ \A h \in Handles : (objs[h].closed /\ DataProducerClose(h)) => SilentNoOp
     /\ (closed /\ WebRtcServerClose) =>
          /\ UNCHANGED <<tvars, registries, allocators, objs, mirrors>>
          /\ \A i \in 1..Len(trace') :
               trace'[i][1] \notin {"Transport", "Transport.observer", "DataProducer"}]_vars

\* Every resource is closed, one of them a DataProducer, by some last call that
\* was not silent: only repeated closing calls are left to run.
C5_Witness ==
  /\ closed /\ srvClosed /\ roClosed
  /\ \E h \in Handles : Built(h) /\ objs[h].cls = "DataProducer" /\ objs[h].closed
  /\ trace # <<>>

\* The terminal state of a close trigger with "allocator state discarded".
AllocatorsDiscarded ==
  /\ cnameForProducers = ""
  /\ nextMidForConsumers = 0
  /\ sctpStreamIds = NoBuffer
  /\ nextSctpStreamId = 0

IsDataConsumer(h) == objs[h].cls = "DataConsumer" /\ objs[h].type = "sctp"
Live(h) == Built(h) /\ ~objs[h].closed
InFlight(h) == objs[h].phase = "pending"
Holders == {h \in Handles : IsDataConsumer(h) /\ (Live(h) \/ InFlight(h))}

\* C7: on a non-Direct Transport no two DataConsumers that are live or in
\* flight at the same time have the same stream id, and every assigned stream
\* id lies in 0..MIS-1.
C7_StreamIdsUnique ==
  /\ \A h1, h2 \in Holders : h1 # h2 => objs[h1].sid # objs[h2].sid
  /\ \A h \in Handles : IsDataConsumer(h) =>
       /\ kind # "DirectTransport" /\ mis # None
       /\ objs[h].sid \in 0..(mis - 1)

\* Two stream ids are held at once, one by a live DataConsumer and one by a
\* suspended call, after an earlier holder has gone.
C7_Witness ==
  /\ \E h1, h2 \in Holders : h1 # h2 /\ Live(h1) /\ InFlight(h2)
  /\ \E h \in Handles : IsDataConsumer(h) /\ h \notin Holders

\* The stream ids whose bit is clear.
FreeIds ==
  IF sctpStreamIds = NoBuffer THEN {}
  ELSE {k \in 0..(Len(sctpStreamIds[1]) - 1) : sctpStreamIds[1][k + 1] = 0}

\* A consumeData() call whose arguments are well formed and whose DataProducer
\* the Router resolves.
ConsumeDataCall == \E dpid \in RouterIds : ConsumeData(dpid, TRUE, TRUE)

\* C8: close() of a live DataConsumer with stream id k, or the close of its
\* DataProducer, clears bit k and removes the DataConsumer from the registry;
\* and when k is then the only clear bit, the next consumeData() issues its
\* request with stream id k, and the DataConsumer built from it has id k.
C8_StreamIdReuse ==
  [][/\ \A h \in Handles :
          (/\ IsDataConsumer(h) /\ Live(h)
           /\ DataConsumerClose(h) \/ DataConsumerDataProducerClosed(h)) =>
             /\ objs'[h].closed
             /\ objs[h].sid \in FreeIds'
             /\ ~MapHas(dataConsumers', objs[h].id)
     /\ \A k \in FreeIds :
          (FreeIds = {k} /\ ConsumeDataCall) =>
             /\ Len(objs') = Len(objs) + 1
             /\ objs'[Len(objs')].sid = k
             /\ objs'[Len(objs')].phase = "pending"
             /\ trace' = << Req("transport.consumeData", Len(objs')) >>
             /\ FreeIds' = {}
     /\ \A h \in Handles : \A ok \in BOOLEAN :
          (IsDataConsumer(h) /\ ConsumeDataResponse(h, ok) /\ ok) =>
             /\ Live(h)' /\ objs'[h].sid = objs[h].sid
             /\ MapHas(dataConsumers', objs[h].id)]_vars

\* With MIS of at least two, every id was held, a DataConsumer was closed, and
\* the consumeData() after it was given the id the closed one had.
C8_Witness ==
  /\ mis # None /\ mis >= 2
  /\ Cardinality(Holders) = mis
  /\ \E h1, h2 \in Handles :
       /\ h1 < h2
       /\ IsDataConsumer(h1) /\ Built(h1) /\ objs[h1].closed
       /\ h2 \in Holders /\ h2 = Len(objs)
       /\ objs[h2].sid = objs[h1].sid
       /\ \A h \in Handles : h < h2 => IsDataConsumer(h) /\ Built(h)

\* C9: consumeData() on a non-Direct Transport whose bitmap has every bit set
\* throws 'no sctpStreamId available'; no request is issued, no DataConsumer
\* is created or registered, no event is emitted, and the bitmap and the
\* cursor keep their values.
C9_StreamIdsExhausted ==
  [][(/\ kind # "DirectTransport"
      /\ sctpStreamIds # NoBuffer
      /\ FreeIds = {}
      /\ ConsumeDataCall) =>
        /\ trace' = << Throw("Error: no sctpStreamId available") >>
        /\ UNCHANGED <<objs, registries, allocators, tvars>>]_vars

\* consumeData() has just thrown on a bitmap of at least two ids, all held.
C9_Witness ==
  /\ trace = << Throw("Error: no sctpStreamId available") >>
  /\ mis # None /\ mis >= 2
  /\ sctpStreamIds # NoBuffer
  /\ FreeIds = {}
  /\ Cardinality(Holders) = mis

\* The number a string of decimal digits denotes.
DigitValue(c) == CHOOSE d \in 0..9 : Digits[d + 1] = c
RECURSIVE DecimalValue(_)
DecimalValue(str) ==
  IF str = <<>> THEN 0
  ELSE DecimalValue(SubSeq(str, 1, Len(str) - 1)) * 10 + DigitValue(str[Len(str)])

\* A decimal numeral: digits only, no leading zero.
IsDecimal(str) ==
  /\ str # <<>>
  /\ \A i \in 1..Len(str) : \E d \in 1..10 : Digits[d] = str[i]
  /\ Len(str) > 1 => str[1] # "0"

LastMid == [i \in 1..8 |-> "9"]
NeverMid == <<"1">> \o [i \in 1..8 |-> "0"]

\* A consume() call that is left to auto-assign the MID: its arguments are well
\* formed, the Producer resolves, the Consumer is not a pipe Consumer, and mid
\* is absent or the empty string.
AutoMidConsume ==
  \E pid \in RouterIds : \E mid \in {MidUndefined, <<"string", <<>>>>} :
    Consume(pid, TRUE, mid, TRUE, TRUE, TRUE, FALSE)

\* C10: an auto-assigned MID is the decimal numeral of the counter, which
\* starts at 0, goes up by exactly one with each auto-assignment and changes
\* in no other step; after "99999999" the counter is 0 again, so the next
\* auto-assigned MID is "0" and "100000000" is never issued.
C10_MidSequence ==
  [][/\ AutoMidConsume =>
          LET issued == objs'[Len(objs')].mid
          IN /\ Len(objs') = Len(objs) + 1
             /\ IsDecimal(issued)
             /\ DecimalValue(issued) = nextMidForConsumers
             /\ issued # NeverMid
             /\ nextMidForConsumers' =
                  IF issued = LastMid THEN 0 ELSE DecimalValue(issued) + 1
     /\ nextMidForConsumers' # nextMidForConsumers => AutoMidConsume
     /\ \A h \in Handles : objs'[h].mid = objs[h].mid]_vars

\* "99999999" was issued and the auto-assigned MID after it is "0".
C10_Witness ==
  \E h1, h2 \in Handles :
    /\ h1 < h2
    /\ objs[h1].mid = LastMid
    /\ objs[h2].mid = <<"0">>
    /\ nextMidForConsumers = 1
    /\ \A h \in Handles : (h1 < h /\ h < h2) => ~IsDecimal(objs[h].mid)

\* A consume() call that gets as far as its request, with the given mid and
\* pipe options.
ConsumeWith(mid, pipe) ==
  \E pid \in RouterIds : Consume(pid, TRUE, mid, TRUE, TRUE, TRUE, pipe)

ExplicitMid == <<"string", <<"m">>>>

\* C11: consume() with pipe = false and no mid gives the Consumer the decimal
\* numeral of the counter and advances the counter; with pipe = false and a
\* non-empty string mid it gives exactly that mid and leaves the counter;
\* with pipe = true it assigns no MID and leaves the counter, whatever mid
\* was supplied; and the Consumer built from the call has the MID of the call.
C11_MidAssignmentRule ==
  [][/\ ConsumeWith(MidUndefined, FALSE) =>
          /\ Len(objs') = Len(objs) + 1
          /\ objs'[Len(objs')].mid = ToDecimal(nextMidForConsumers)
          /\ nextMidForConsumers' # nextMidForConsumers
          /\ nextMidForConsumers' = (nextMidForConsumers + 1) % MaxMid
     /\ ConsumeWith(ExplicitMid, FALSE) =>
          /\ Len(objs') = Len(objs) + 1
          /\ objs'[Len(objs')].mid = ExplicitMid[2]
          /\ UNCHANGED nextMidForConsumers
     /\ \A mid \in {MidUndefined, ExplicitMid} :
          ConsumeWith(mid, TRUE) =>
            /\ Len(objs') = Len(objs) + 1
            /\ objs'[Len(objs')].mid = <<>>
            /\ objs'[Len(objs')].type = "pipe"
            /\ UNCHANGED nextMidForConsumers
     /\ \A h \in Handles : \A ok \in BOOLEAN :
          ConsumeResponse(h, ok) =>
            /\ objs'[h].mid = objs[h].mid
            /\ UNCHANGED nextMidForConsumers]_vars

\* Three Consumers are built: one with an auto-assigned MID, one with the
\* caller's mid, one pipe Consumer without MID; the counter moved once.
C11_Witness ==
  /\ \E h1, h2, h3 \in Handles :
       /\ Built(h1) /\ IsDecimal(objs[h1].mid) /\ objs[h1].type # "pipe"
       /\ Built(h2) /\ objs[h2].mid = ExplicitMid[2] /\ objs[h2].type # "pipe"
       /\ Built(h3) /\ objs[h3].mid = <<>> /\ objs[h3].type = "pipe"
  /\ nextMidForConsumers \in {1, MaxMid - MidWindow + 1}

IsProducer(objects, h) == objects[h].cls = "Producer"

\* A produce() call that supplies rtcp.cname = cname ("" for none) and gets
\* past the validation of its arguments; it still fails if mappingOk or
\* consumableOk is false.
ProduceWith(cname, mappingOk, consumableOk) ==
  Produce(None, "video", TRUE, TRUE, cname, OneEncoding, mappingOk, consumableOk)

\* C12: on a non-pipe Transport the first produce() call that gets past the
\* validation of its arguments fixes the Transport's CNAME, to the cname it
\* supplied or to a generated one; the CNAME never changes afterwards; and
\* every Producer, in flight or built, carries the Transport's CNAME in its
\* RTP parameters, whatever its caller supplied.  So all Producers of the
\* Transport have equal CNAME.
C12_CnameGrouping ==
  [][kind # "PipeTransport" =>
       /\ cnameForProducers # "" => UNCHANGED cnameForProducers
       /\ \A cname \in Cnames : \A ok \in [1..2 -> BOOLEAN] :
            (cnameForProducers = "" /\ ProduceWith(cname, ok[1], ok[2])) =>
               cnameForProducers' = IF cname # "" THEN cname ELSE GeneratedCname
       /\ \A h \in 1..Len(objs') : IsProducer(objs', h) =>
            /\ objs'[h].cname = cnameForProducers'
            /\ objs'[h].cname # ""
       /\ \A h1, h2 \in 1..Len(objs') :
            (IsProducer(objs', h1) /\ IsProducer(objs', h2)) =>
               objs'[h1].cname = objs'[h2].cname]_vars

\* Two Producers are registered on a non-pipe Transport whose CNAME is one a
\* caller supplied.
C12_Witness ==
  /\ kind # "PipeTransport"
  /\ cnameForProducers \in {"a", "b"}
  /\ Len(producers) = 2
  /\ \A h \in Handles : IsProducer(objs, h) /\ Built(h) /\ ~objs[h].closed

\* C13: on a PipeTransport produce() leaves the Transport's CNAME unset and
\* gives each Producer the cname its caller supplied, none if none.
C13_PipeKeepsCname ==
  [][kind = "PipeTransport" =>
       /\ cnameForProducers = "" /\ cnameForProducers' = ""
       /\ \A cname \in Cnames :
            ProduceWith(cname, TRUE, TRUE) =>
              /\ Len(objs') = Len(objs) + 1
              /\ objs'[Len(objs')].cname = cname
       /\ \A h \in Handles : objs'[h].cname = objs[h].cname]_vars

\* Two Producers with different CNAMEs are registered on a PipeTransport.
C13_Witness ==
  /\ kind = "PipeTransport"
  /\ Len(producers) = 2
  /\ \E h1, h2 \in Handles :
       /\ Built(h1) /\ Built(h2)
       /\ objs[h1].cname = "a"
       /\ objs[h2].cname \in {"", "b"}

\* C14: no Producer (DataProducer) is built with the id of an earlier call of
\* the same method that is in flight or whose Producer (DataProducer) is live.
C14_DuplicateIdRefused ==
  \A h1, h2 \in Handles :
    (/\ h1 < h2
     /\ objs[h1].cls \in {"Producer", "DataProducer"}
     /\ objs[h2].cls = objs[h1].cls
     /\ objs[h2].id = objs[h1].id
     /\ objs[h1].phase = "pending" \/ (Built(h1) /\ ~objs[h1].closed))
    => ~Built(h2)

\* A call that throws and does nothing else to what the Transport owns.
ThrowsOnly(error) ==
  /\ trace' = << Throw(error) >>
  /\ UNCHANGED <<tvars, registries, allocators, objs>>

\* C15: consume() whose producerId the lookup does not resolve throws the
\* not-found error: no request, no Consumer, no event, the MID counter as it
\* was.  consumeData() whose dataProducerId the lookup does not resolve does
\* the same: no request, no DataConsumer, no stream id reserved.
C15_NotFoundHasNoEffect ==
  [][/\ \A pid \in RouterIds, mid \in {MidUndefined, <<"string", <<"m">>>>},
           negotiated \in BOOLEAN :
          Consume(pid, TRUE, mid, TRUE, FALSE, negotiated, FALSE) =>
            ThrowsOnly("Error: Producer not found")
     /\ \A dpid \in RouterIds :
          ConsumeData(dpid, TRUE, FALSE) =>
            ThrowsOnly("Error: DataProducer not found")]_vars

\* consume() has just thrown not-found on a Transport whose earlier consume()
\* took MID "0", and an earlier call is still in flight.
C15_Witness ==
  /\ trace = << Throw("Error: Producer not found") >>
  /\ nextMidForConsumers = 1
  /\ \E h \in Handles : objs[h].cls = "Consumer" /\ objs[h].phase = "pending"

\* The names of the events and requests in a trace.
Names(tr) == {tr[i][2] : i \in {j \in 1..Len(tr) : tr[j][1] # "throw"}}
Throws(tr) == {tr[i][2] : i \in {j \in 1..Len(tr) : tr[j][1] = "throw"}}

\* One of the four create calls, with any arguments.
CreateCall == ProduceCalls \/ ConsumeCalls \/ ProduceDataCalls \/ ConsumeDataCalls

\* C16: a create call that fails in a step before its request throws without
\* having issued a request, builds and registers no child and emits no event;
\* and a create call that does not throw issues exactly its one request.
C16_NoPartialConstruction ==
  [][CreateCall =>
       IF Throws(trace') # {}
         THEN /\ Len(trace') = 1
              /\ Names(trace') = {}
              /\ UNCHANGED <<objs, registries, tvars>>
         ELSE /\ Len(trace') = 1
              /\ trace'[1][1] = "request"
              /\ Len(objs') = Len(objs) + 1
              /\ UNCHANGED <<registries, tvars>>]_vars

\* A create call has just thrown in its last step before the request (an ortc
\* step of produce(), or the stream-id allocation of consumeData()), on a
\* Transport with a registered child.
C16_Witness ==
  /\ Throws(trace) \cap {"ortc.getProducerRtpParametersMapping",
                         "ortc.getConsumableRtpParameters",
                         "Error: no sctpStreamId available"} # {}
  /\ \E h \in Handles : Built(h) /\ Registered(h)

\* The answer of the engine to the request of call h.
EngineAnswer(h, ok) ==
  \/ ProduceResponse(h, ok)
  \/ ConsumeResponse(h, ok)
  \/ ProduceDataResponse(h, ok)
  \/ ConsumeDataResponse(h, ok)

\* C17: when the engine rejects the request of a create call, the call throws
\* the rejection, builds no child, registers nothing and emits no event; and
\* the call stays that way.
C17_RejectionBuildsNothing ==
  [][\A h \in Handles :
       /\ EngineAnswer(h, FALSE) =>
            /\ Throws(trace') # {} /\ Names(trace') = {}
            /\ objs'[h].phase = "rejected"
            /\ \A g \in Handles : g # h => objs'[g] = objs[g]
            /\ UNCHANGED <<registries, tvars>>
       /\ objs[h].phase = "rejected" =>
            /\ objs'[h] = objs[h]
            /\ ~Registered(h)']_vars

\* A request has just been rejected while another child is registered.
C17_Witness ==
  /\ Throws(trace) = {"EngineRequestFailed"}
  /\ \E h \in Handles : objs[h].phase = "rejected"
  /\ \E h \in Handles : Built(h) /\ Registered(h)

\* The requests in a trace.
Requests(tr) == {i \in 1..Len(tr) : tr[i][1] = "request"}

\* C18: the first close() of a Transport, DataProducer, RtpObserver or
\* WebRtcServer issues exactly one engine request, its own close request, and
\* throws nothing; the resource is closed when close() returns, before any
\* answer; and the answer, success or failure, changes nothing, emits nothing
\* and throws nothing.
C18_BestEffortCloseRequest ==
  [][/\ (~closed /\ Close) =>
          /\ Cardinality(Requests(trace')) = 1
          /\ trace'[1] = Req("router.closeTransport", TransportId)
          /\ Throws(trace') = {}
          /\ closed' /\ AllRegistriesEmpty'
          /\ \A h \in Handles : Registered(h) => objs'[h].closed
          /\ Count(trace', "Transport", "@close") = 1
          /\ Count(trace', "Transport.observer", "close") = 1
     /\ \A h \in Handles : (~objs[h].closed /\ DataProducerClose(h)) =>
          /\ Cardinality(Requests(trace')) = 1
          /\ trace'[1] = Req("transport.closeDataProducer", h)
          /\ Throws(trace') = {}
          /\ objs'[h].closed
          /\ CountFor(trace', "DataProducer", "@close", h) = 1
          /\ CountFor(trace', "DataProducer.observer", "close", h) = 1
     /\ (~roClosed /\ RtpObserverClose) =>
          /\ Cardinality(Requests(trace')) = 1
          /\ trace'[1] = Req("router.closeRtpObserver", 0)
          /\ Throws(trace') = {}
          /\ roClosed'
          /\ Count(trace', "RtpObserver", "@close") = 1
          /\ Count(trace', "RtpObserver.observer", "close") = 1
     /\ (~srvClosed /\ WebRtcServerClose) =>
          /\ Cardinality(Requests(trace')) = 1
          /\ trace'[1] = Req("worker.closeWebRtcServer", 0)
          /\ Throws(trace') = {}
          /\ srvClosed' /\ webRtcTransports' = {}
          /\ Count(trace', "WebRtcServer", "@close") = 1
          /\ Count(trace', "WebRtcServer.observer", "close") = 1
     /\ \A method \in CloseMethods : \A ok \in BOOLEAN :
          CloseRequestSettled(method, ok) => SilentNoOp]_vars

\* A DataProducer has just been closed by its close(), on an open Transport,
\* after the WebRtcServer and the RtpObserver were closed.
C18_Witness ==
  /\ ~closed /\ srvClosed /\ roClosed
  /\ \E h \in Handles :
       /\ trace # <<>>
       /\ trace[1] = Req("transport.closeDataProducer", h)
       /\ objs[h].closed

\* What the source `src` emits in a trace, in order.
RECURSIVE EmittedBy(_, _)
EmittedBy(tr, src) ==
  IF tr = <<>> THEN <<>>
  ELSE (IF Head(tr)[1] = src THEN << Head(tr)[2] >> ELSE <<>>)
       \o EmittedBy(Tail(tr), src)

RECURSIVE EmittedFor(_, _, _)
EmittedFor(tr, src, h) ==
  IF tr = <<>> THEN <<>>
  ELSE (IF Head(tr)[1] = src /\ Head(tr)[3] = h THEN << Head(tr)[2] >> ELSE <<>>)
       \o EmittedFor(Tail(tr), src, h)

\* C19: routerClosed() of an open Transport issues no request, and the
\* Transport emits 'routerclose' and then the observer's 'close', nothing
\* else; routerClosed() of an open RtpObserver likewise; and a DataProducer
\* closed by its Transport issues no 'transport.closeDataProducer' request
\* and emits 'transportclose' and the observer's 'close', nothing else.
C19_OwnerCascadeIsSilent ==
  [][/\ (~closed /\ RouterClosed) =>
          /\ Requests(trace') = {}
          /\ EmittedBy(trace', "Transport") = << "routerclose" >>
          /\ EmittedBy(trace', "Transport.observer") = << "close" >>
     /\ (~roClosed /\ RtpObserverRouterClosed) =>
          /\ Requests(trace') = {}
          /\ EmittedBy(trace', "RtpObserver") = << "routerclose" >>
          /\ EmittedBy(trace', "RtpObserver.observer") = << "close" >>
     /\ \A h \in Handles :
          (/\ ~closed /\ closed'
           /\ objs[h].cls = "DataProducer" /\ Registered(h)) =>
             /\ objs'[h].closed
             /\ \A i \in Requests(trace') :
                  trace'[i] # Req("transport.closeDataProducer", h)
             /\ EmittedFor(trace', "DataProducer", h) = << "transportclose" >>
             /\ EmittedFor(trace', "DataProducer.observer", h) = << "close" >>]_vars

\* routerClosed() has just closed a Transport that owned a DataProducer, after
\* routerClosed() of the RtpObserver.
C19_Witness ==
  /\ closed /\ roClosed
  /\ EmittedBy(trace, "Transport") = << "routerclose" >>
  /\ \E h \in Handles : EmittedFor(trace, "DataProducer", h) = << "transportclose" >>

\* The place of event e in a trace that holds it.
Pos(tr, e) == CHOOSE i \in 1..Len(tr) : tr[i] = e
Holds(tr, e) == \E i \in 1..Len(tr) : tr[i] = e

\* What a first close() of an open Transport does, in order: one
\* 'router.closeTransport' request first; then each registered child's
\* 'transportclose', followed for a Producer by one '@producerclose' and for a
\* DataProducer by one '@dataproducerclose'; then '@close', once; and the
\* observer's 'close', once, as the last thing; with closed set, the
\* subscriptions removed and the registries empty.
CloseOrdering ==
  (~closed /\ Close) =>
    /\ closed' /\ ~listeners' /\ AllRegistriesEmpty'
    /\ Requests(trace') = {1}
    /\ trace'[1] = Req("router.closeTransport", TransportId)
    /\ Count(trace', "Transport", "@close") = 1
    /\ Count(trace', "Transport.observer", "close") = 1
    /\ trace'[Len(trace')] = Ev("Transport.observer", "close", 0)
    /\ Pos(trace', Ev("Transport", "@close", 0))
         < Pos(trace', Ev("Transport.observer", "close", 0))
    /\ Count(trace', "Transport", "@producerclose") = Len(producers)
    /\ Count(trace', "Transport", "@dataproducerclose") = Len(dataProducers)
    /\ Len(EmittedBy(trace', "Transport")) = Len(producers) + Len(dataProducers) + 1
    /\ \A h \in Handles : Registered(h) =>
         /\ CountFor(trace', objs[h].cls, "transportclose", h) = 1
         /\ 1 < Pos(trace', Ev(objs[h].cls, "transportclose", h))
         /\ Pos(trace', Ev(objs[h].cls, "transportclose", h))
              < Pos(trace', Ev("Transport", "@close", 0))
         /\ objs[h].cls = "Producer" =>
              /\ CountFor(trace', "Transport", "@producerclose", h) = 1
              /\ Pos(trace', Ev("Producer", "transportclose", h))
                   < Pos(trace', Ev("Transport", "@producerclose", h))
              /\ Pos(trace', Ev("Transport", "@producerclose", h))
                   < Pos(trace', Ev("Transport", "@close", 0))
         /\ objs[h].cls = "DataProducer" =>
              /\ CountFor(trace', "Transport", "@dataproducerclose", h) = 1
              /\ Pos(trace', Ev("DataProducer", "transportclose", h))
                   < Pos(trace', Ev("Transport", "@dataproducerclose", h))
              /\ Pos(trace', Ev("Transport", "@dataproducerclose", h))
                   < Pos(trace', Ev("Transport", "@close", 0))

\* C20: a first close() of an open Transport keeps the order of CloseOrdering,
\* and the Transport emits no event after the observer's 'close': a closed
\* Transport emits nothing.
C20_DirectCloseOrdering ==
  [][/\ CloseOrdering
     /\ closed =>
          /\ EmittedBy(trace', "Transport") = <<>>
          /\ EmittedBy(trace', "Transport.observer") = <<>>]_vars

\* close() of an open WebRtcServer whose registry holds the Transport.
ServerClosesBoundTransport ==
  ~srvClosed /\ WebRtcServerClose /\ TransportId \in webRtcTransports

\* What the Transport does when listenServerClosed() closes it: no request,
\* '@listenserverclose' once, then 'listenserverclose', then the observer's
\* 'close', and no '@close'.
NotifiesListenServerClose ==
  /\ closed'
  /\ \A i \in Requests(trace') : trace'[i][2] # "router.closeTransport"
  /\ EmittedBy(trace', "Transport") = << "@listenserverclose", "listenserverclose" >>
  /\ EmittedBy(trace', "Transport.observer") = << "close" >>
  /\ Pos(trace', Ev("Transport", "listenserverclose", 0))
       < Pos(trace', Ev("Transport.observer", "close", 0))

\* C21: close() of a WebRtcServer closes every WebRtcTransport of its
\* registry, and each of them emits '@listenserverclose' once, followed by
\* 'listenserverclose' and the observer's 'close', with no
\* 'router.closeTransport' request and no '@close'.
C21_EveryBoundTransportNotifies ==
  [][ServerClosesBoundTransport => NotifiesListenServerClose]_vars

\* C22: close() of an open WebRtcServer leaves every Transport of its registry
\* closed and the registry empty, issues 'worker.closeWebRtcServer' and emits
\* '@close'; workerClosed() of an open WebRtcServer empties the registry,
\* leaves the Transport as it is, issues no request and emits 'workerclose',
\* not '@close'.  Each emits the server observer's 'close' exactly once.
C22_ServerRegistry ==
  [][/\ (~srvClosed /\ WebRtcServerClose) =>
          /\ srvClosed'
          /\ TransportId \in webRtcTransports => closed'
          /\ webRtcTransports' = {}
          /\ Cardinality(Requests(trace')) = 1
          /\ trace'[1] = Req("worker.closeWebRtcServer", 0)
          /\ EmittedBy(trace', "WebRtcServer") = << "@close" >>
          /\ Count(trace', "WebRtcServer.observer", "close") = 1
     /\ (~srvClosed /\ WebRtcServerWorkerClosed) =>
          /\ srvClosed'
          /\ webRtcTransports' = {}
          /\ UNCHANGED <<tvars, registries, allocators, objs, mirrors>>
          /\ Requests(trace') = {}
          /\ EmittedBy(trace', "WebRtcServer") = << "workerclose" >>
          /\ Count(trace', "WebRtcServer.observer", "close") = 1]_vars

\* workerClosed() has just emptied the registry of a WebRtcServer that handled
\* the Transport, and the Transport is open.
C22_Witness ==
  /\ srvClosed /\ ~closed
  /\ closeListeners = 1 /\ webRtcTransports = {}
  /\ Holds(trace, Ev("WebRtcServer", "workerclose", 0))

\* The registry that holds children of class cls, and the signal the
\* Transport sends to the Router when such a child closes itself.
RegistryOf(cls) ==
  CASE cls = "Producer" -> producers
    [] cls = "Consumer" -> consumers
    [] cls = "DataProducer" -> dataProducers
    [] OTHER -> dataConsumers

RouterSignalOf(cls) ==
  IF cls = "Producer" THEN "@producerclose" ELSE "@dataproducerclose"

\* Map m without the entry of child h, whatever its key.
Without(m, h) == SelectSeq(m, LAMBDA e : e[2] # h)

\* Child h is in its registry under its own id.
UnderOwnId(h) == << objs[h].id, h >> \in {RegistryOf(objs[h].cls)[i] :
                                           i \in 1..Len(RegistryOf(objs[h].cls))}

\* C23: on an open Transport, every built Producer (DataProducer) that has
\* not closed is in the registry under its own id; when it emits '@close' the
\* Transport removes exactly that child from the registry and emits
\* '@producerclose' ('@dataproducerclose') for it once, and changes nothing
\* else in the registries and nothing in the allocators.
C23_SelfCloseWiring ==
  [][\A h \in Handles :
       (/\ ~closed /\ Built(h) /\ ~objs[h].closed
        /\ objs[h].cls \in {"Producer", "DataProducer"})
       => /\ UnderOwnId(h)
          /\ (ProducerClose(h) \/ DataProducerClose(h)) =>
               /\ producers' = Without(producers, h)
               /\ dataProducers' = Without(dataProducers, h)
               /\ UNCHANGED <<consumers, dataConsumers, allocators>>
               /\ CountFor(trace', "Transport", RouterSignalOf(objs[h].cls), h) = 1
               /\ Count(trace', "Transport", RouterSignalOf(objs[h].cls)) = 1]_vars

\* Every child but h is as it was.
OthersUnchanged(h) == \A g \in Handles \ {h} : objs'[g] = objs[g]

\* The bitmap with the stream id of h released and every other bit as it was.
Released(h) ==
  IF objs[h].sid = NoStreamId THEN sctpStreamIds
  ELSE << [sctpStreamIds[1] EXCEPT ![objs[h].sid + 1] = 0] >>

\* C24: when a Consumer signals '@producerclose' (a DataConsumer signals
\* '@dataproducerclose') the Transport removes exactly that child from its
\* registry and releases the DataConsumer's stream id; its closed flag, the
\* other registries, the other children and the rest of the allocators are
\* unchanged, and it emits nothing, so nothing reaches the Router.
C24_ProducerCloseReaction ==
  [][\A h \in Handles :
       /\ ConsumerProducerClosed(h) =>
            /\ UnderOwnId(h)
            /\ consumers' = Without(consumers, h)
            /\ UNCHANGED <<producers, dataProducers, dataConsumers, allocators>>
            /\ UNCHANGED <<tvars, mirrors, svars>>
            /\ OthersUnchanged(h)
            /\ EmittedBy(trace', "Transport") = <<>>
            /\ Requests(trace') = {}
       /\ DataConsumerDataProducerClosed(h) =>
            /\ UnderOwnId(h)
            /\ dataConsumers' = Without(dataConsumers, h)
            /\ objs[h].sid # NoStreamId => sctpStreamIds[1][objs[h].sid + 1] = 1
            /\ sctpStreamIds' = Released(h)
            /\ UNCHANGED <<producers, consumers, dataProducers>>
            /\ UNCHANGED <<cnameForProducers, nextMidForConsumers, nextSctpStreamId>>
            /\ UNCHANGED <<tvars, mirrors, svars>>
            /\ OthersUnchanged(h)
            /\ EmittedBy(trace', "Transport") = <<>>
            /\ Requests(trace') = {}]_vars

\* A DataConsumer holding a stream id has just closed on '@dataproducerclose'
\* and its id is free again, while another child stays registered and open.
C24_Witness ==
  \E h, g \in Handles :
    /\ h # g
    /\ Holds(trace, Ev("DataConsumer", "@dataproducerclose", h))
    /\ objs[h].sid # NoStreamId /\ sctpStreamIds[1][objs[h].sid + 1] = 0
    /\ Built(g) /\ Registered(g) /\ ~objs[g].closed

\* The notifications that carry a new value of one mirror.
IceStateChange == \E s \in IceStates : WebRtcNotification("icestatechange", s, Undefined)
DtlsStateChange ==
  \E s \in DtlsStates : \E c \in Certs : WebRtcNotification("dtlsstatechange", s, c)
SctpStateChange == \E s \in SctpStates : WebRtcNotification("sctpstatechange", s, Undefined)
SelectedTupleChange ==
  \E t \in Tuples : WebRtcNotification("iceselectedtuplechange", t, Undefined)

\* A step of a local operation: a call or the continuation of one.
LocalOperation == LocalOperations \/ CreateOperations

\* C25: while a WebRtcTransport is open, a notification of one kind sets its
\* own mirror to the value it carries and leaves the other two mirrors alone,
\* 'iceselectedtuplechange' changes the selected tuple only, and every other
\* step, the local operations connect, restartIce, getStats, produce and
\* consume among them, changes none of iceState, dtlsState and sctpState: each
\* mirror holds the value of the last notification of its kind, or the
\* construction value.
C25_StateMirroring ==
  [][(kind = "WebRtcTransport" /\ ~closed /\ ~closed') =>
       /\ \A s \in IceStates :
            \/ iceState' = s /\ UNCHANGED <<dtlsState, sctpState, iceSelectedTuple>>
            \/ ~WebRtcNotification("icestatechange", s, Undefined)
       /\ \A s \in DtlsStates : \A c \in Certs :
            \/ dtlsState' = s /\ UNCHANGED <<iceState, sctpState, iceSelectedTuple>>
            \/ ~WebRtcNotification("dtlsstatechange", s, c)
       /\ \A s \in SctpStates :
            \/ sctpState' = s /\ UNCHANGED <<iceState, dtlsState, iceSelectedTuple>>
            \/ ~WebRtcNotification("sctpstatechange", s, Undefined)
       /\ \A t \in Tuples :
            \/ /\ iceSelectedTuple' = t
               /\ UNCHANGED <<iceState, dtlsState, sctpState, dtlsRemoteCert>>
            \/ ~WebRtcNotification("iceselectedtuplechange", t, Undefined)
       /\ UNCHANGED iceState \/ IceStateChange
       /\ UNCHANGED dtlsState \/ DtlsStateChange
       /\ UNCHANGED sctpState \/ SctpStateChange
       /\ UNCHANGED <<iceState, dtlsState, sctpState>> \/ ~LocalOperation]_vars

\* connect() has just returned with the engine's role on an open transport
\* whose dtlsState is still the one the last notification reported, and whose
\* three mirrors were driven apart by notifications.
C25_Witness ==
  /\ kind = "WebRtcTransport" /\ ~closed
  /\ dtlsRole = "client" /\ trace = <<>> /\ localCalls = <<>>
  /\ iceState = "connected" /\ dtlsState = "connecting" /\ sctpState = "new"
  /\ iceSelectedTuple = "tuple2"

\* A 'dtlsstatechange' notification whose new state is 'connected'.
DtlsConnected ==
  \E c \in Certs : WebRtcNotification("dtlsstatechange", "connected", c)

\* C26: a 'dtlsstatechange' notification to 'connected' sets dtlsRemoteCert to
\* the certificate it carries; a 'dtlsstatechange' to another state, every
\* other notification and every close trigger leave dtlsRemoteCert as it was.
C26_RemoteCertCapture ==
  [][/\ \A c \in Certs :
          \/ dtlsRemoteCert' = c
          \/ ~WebRtcNotification("dtlsstatechange", "connected", c)
     /\ UNCHANGED dtlsRemoteCert \/ DtlsConnected
     /\ UNCHANGED dtlsRemoteCert \/ ~Triggers]_vars

\* A close trigger has just closed a WebRtcTransport that had captured a
\* certificate, and the certificate is retained.
C26_Witness ==
  /\ kind = "WebRtcTransport" /\ closed
  /\ dtlsState = "closed" /\ dtlsRemoteCert = "cert2"
  /\ Holds(trace, Ev("Transport.observer", "close", 0))

\* A notification for the transport id arrives.
TransportNotified == Notifications \/ TransportNotificationDropped

\* Nothing but the trace changes, and the trace is empty.
NoEffect ==
  /\ UNCHANGED <<tvars, registries, allocators, objs, mirrors, svars, ovars, local>>
  /\ trace' = <<>>

\* C27: a closed WebRtcTransport or PlainTransport and a closed RtpObserver
\* have no notification listener left, and a DataProducer has none; a
\* notification that arrives for the id of a closed Transport, RtpObserver or
\* DataProducer changes no state and emits nothing.
C27_UnsubscribeOnClose ==
  [][/\ (closed' /\ kind \in {"WebRtcTransport", "PlainTransport"}) => ~listeners'
     /\ roClosed' => ~roListeners'
     /\ ~closed \/ NoEffect \/ ~TransportNotified
     /\ ~roClosed \/ NoEffect \/ ~RtpObserverNotificationDropped
     /\ \A h \in Handles :
          (Built(h) /\ objs[h].cls = "DataProducer" /\ objs[h].closed) =>
            (NoEffect \/ ~DataProducerNotification(h))]_vars

\* The Transport, the RtpObserver and a DataProducer are closed, the mirrors
\* hold what the close left, and the last thing that happened emitted nothing.
C27_Witness ==
  /\ closed /\ ~listeners /\ roClosed /\ ~roListeners
  /\ kind = "WebRtcTransport" /\ iceState = "closed" /\ dtlsRemoteCert = "cert1"
  /\ \E h \in Handles : Built(h) /\ objs[h].cls = "DataProducer" /\ objs[h].closed
  /\ trace = <<>>

\* The mirror a state-change event reports, once the handler has returned.
MirrorAfter(name) ==
  CASE name = "icestatechange" -> iceState'
    [] name = "iceselectedtuplechange" -> iceSelectedTuple'
    [] name = "dtlsstatechange" -> dtlsState'
    [] name = "sctpstatechange" -> sctpState'
    [] name = "tuple" -> tuple'
    [] name = "rtcptuple" -> rtcpTuple'

StateChangeEvents ==
  {"icestatechange", "iceselectedtuplechange", "dtlsstatechange",
   "sctpstatechange", "tuple", "rtcptuple"}

NewChildEvents == {"newproducer", "newconsumer", "newdataproducer", "newdataconsumer"}

ChildObservers ==
  {"Producer.observer", "Consumer.observer", "DataProducer.observer",
   "DataConsumer.observer"}

Unhandled == Ev("WebRtcServer.observer", "webrtctransportunhandled", TransportId)

\* C28: when an observer event is emitted, the transition behind it is in
\* effect: at a Transport's observer 'close' the Transport is closed and its
\* registries hold no closed child, at a child's observer 'close' the child is
\* closed, at a 'new*' event the child is in its registry, at a state-change
\* event the mirror holds the reported value, and at a WebRtcServer's
\* 'webrtctransportunhandled' the transport is not in the server's registry.
C28_NoTornState ==
  [][\A i \in 1..Len(trace') :
       /\ (trace'[i][1] = "Transport.observer" /\ trace'[i][2] = "close") =>
            /\ closed'
            /\ \A h \in Handles : objs'[h].closed =>
                 h \notin MapValues(producers') \cup MapValues(consumers')
                          \cup MapValues(dataProducers') \cup MapValues(dataConsumers')
       /\ (trace'[i][1] \in ChildObservers /\ trace'[i][2] = "close") =>
            objs'[trace'[i][3]].closed
       /\ (trace'[i][1] = "Transport.observer" /\ trace'[i][2] \in NewChildEvents) =>
            trace'[i][3] \in MapValues(producers') \cup MapValues(consumers')
                             \cup MapValues(dataProducers') \cup MapValues(dataConsumers')
       /\ (trace'[i][1] = "Transport.observer" /\ trace'[i][2] \in StateChangeEvents) =>
            MirrorAfter(trace'[i][2]) = trace'[i][3]
       /\ (trace'[i] = Unhandled /\ ~srvClosed /\ WebRtcServerClose) =>
            TransportId \notin RegistryInCloseLoop
       /\ (trace'[i] = Unhandled /\ Close) =>
            TransportId \notin RegistryInCloseListener]_vars

\* The observer event that announces a child of class cls.
NewEventOf(cls) ==
  CASE cls = "Producer" -> "newproducer"
    [] cls = "Consumer" -> "newconsumer"
    [] cls = "DataProducer" -> "newdataproducer"
    [] OTHER -> "newdataconsumer"

\* 1 if the step makes true what was false, 0 if not.
Once(before, after) == IF ~before /\ after THEN 1 ELSE 0

\* C29: a step emits the observer 'close' of a Transport, a child, an
\* RtpObserver or a WebRtcServer once if it closes that resource and not at
\* all if it does not, so a resource that is ever closed emits it exactly
\* once; it emits a child's 'new*' event once if it builds that child and not
\* at all if it does not; and it emits 'webrtctransportunhandled' at most
\* once, only for a transport that was handled and had not been unhandled,
\* and leaves that transport closed and out of the registry, so the event
\* cannot come again.
C29_AtMostOnce ==
  [][/\ Count(trace', "Transport.observer", "close") = Once(closed, closed')
     /\ Count(trace', "RtpObserver.observer", "close") = Once(roClosed, roClosed')
     /\ Count(trace', "WebRtcServer.observer", "close") = Once(srvClosed, srvClosed')
     /\ \A h \in 1..Len(objs') :
          /\ CountFor(trace', objs'[h].cls \o ".observer", "close", h)
               = Once(h \in Handles /\ objs[h].closed, objs'[h].closed)
          /\ CountFor(trace', "Transport.observer", NewEventOf(objs'[h].cls), h)
               = Once(h \in Handles /\ Built(h), objs'[h].phase = "built")
     /\ Count(trace', "WebRtcServer.observer", "webrtctransporthandled")
          = Once(closeListeners > 0, closeListeners' > 0)
     /\ Count(trace', "WebRtcServer.observer", "webrtctransportunhandled") <= 1
     /\ Holds(trace', Unhandled) =>
          /\ closeListeners > 0
          /\ ~closed \/ TransportId \in webRtcTransports
          /\ closed' /\ TransportId \notin webRtcTransports']_vars

\* close() of the WebRtcServer has just closed the handled Transport and its
\* DataProducer, each with one observer 'close', after the RtpObserver closed.
C29_Witness ==
  /\ closed /\ srvClosed /\ roClosed
  /\ Holds(trace, Unhandled)
  /\ Count(trace, "Transport.observer", "close") = 1
  /\ Count(trace, "WebRtcServer.observer", "close") = 1
  /\ \E h \in Handles : CountFor(trace, "DataProducer.observer", "close", h) = 1

\* The children a closing Transport finds in its registries.
RegisteredChildren == {h \in Handles : Registered(h)}

\* C30: when listeners of public and observer events throw, each closing
\* cascade does what it does when none throws: close() and routerClosed() of
\* an open Transport, and close() of the open WebRtcServer that holds it, close
\* every registered child, empty the four registries and emit the same
\* events, '@producerclose', '@dataproducerclose', '@close' and
\* '@listenserverclose' among them, and nothing is thrown.
C30_ObserverIsolation ==
  [][\A throwing \in ListenerSets :
       /\ CloseListened(throwing) => Close
       /\ RouterClosedListened(throwing) => RouterClosed
       /\ WebRtcServerCloseListened(throwing) => WebRtcServerClose
       /\ (/\ ~closed
           /\ \/ CloseListened(throwing)
              \/ RouterClosedListened(throwing)
              \/ /\ WebRtcServerCloseListened(throwing)
                 /\ ~srvClosed /\ TransportId \in webRtcTransports)
          => /\ closed'
             /\ \A h \in RegisteredChildren : objs'[h].closed
             /\ producers' = <<>> /\ consumers' = <<>>
             /\ dataProducers' = <<>> /\ dataConsumers' = <<>>
             /\ \A i \in 1..Len(trace') : trace'[i][1] # "throw"
             /\ \/ Count(trace', "Transport", "@close") = 1
                \/ Count(trace', "Transport", "routerclose") = 1
                \/ Count(trace', "Transport", "@listenserverclose") = 1]_vars

\* close() has just closed a Transport with a Producer and a DataProducer,
\* past their 'transportclose' and observer 'close' events, and told the
\* Router of both.
C30_Witness ==
  /\ closed /\ AllRegistriesEmpty
  /\ \E p, d \in Handles :
       /\ Holds(trace, Ev("Producer", "transportclose", p))
       /\ Holds(trace, Ev("Transport", "@producerclose", p))
       /\ Holds(trace, Ev("DataProducer.observer", "close", d))
       /\ Holds(trace, Ev("Transport", "@dataproducerclose", d))
       /\ objs[p].closed /\ objs[d].closed
  /\ Pos(trace, Ev("Transport", "@close", 0)) = Len(trace) - 1

\* C31: addProducer() and removeProducer() look the Producer up first.  If
\* the id does not resolve the call throws, sends no request and emits
\* nothing; if the engine accepts the request, one 'addproducer'
\* ('removeproducer') event carrying that Producer is emitted; if it rejects
\* it, none is.  No step of the RtpObserver changes a Producer.
C31_ProducerLookupFirst ==
  [][\A method \in ProducerMethods : \A pid \in RouterIds :
       /\ AddOrRemoveProducer(method, pid, FALSE) =>
            /\ Requests(trace') = {}
            /\ EmittedBy(trace', "RtpObserver.observer") = <<>>
            /\ Throws(trace') # {}
            /\ UNCHANGED <<objs, registries, ovars>>
       /\ AddOrRemoveProducer(method, pid, TRUE) =>
            /\ trace' = << Req(method, pid) >>
            /\ UNCHANGED <<objs, registries>>
       /\ \A i \in 1..Len(roCalls) :
            /\ AddOrRemoveProducerResponse(i, method, TRUE) =>
                 /\ trace' = << Ev("RtpObserver.observer", ProducerEventOf(method),
                                   roCalls[i][2]) >>
                 /\ UNCHANGED <<objs, registries>>
            /\ AddOrRemoveProducerResponse(i, method, FALSE) =>
                 /\ EmittedBy(trace', "RtpObserver.observer") = <<>>
                 /\ UNCHANGED <<objs, registries>>
       /\ RtpObserverClose \/ RtpObserverRouterClosed =>
            UNCHANGED <<objs, registries>>]_vars

\* addProducer() has just emitted 'addproducer' for the Producer it looked up,
\* while the Transport's Producer is registered and open.
C31_Witness ==
  /\ \E pid \in RouterIds : trace = << Ev("RtpObserver.observer", "addproducer", pid) >>
  /\ \E h \in Handles : Built(h) /\ objs[h].cls = "Producer" /\ ~objs[h].closed
                        /\ MapHas(producers, objs[h].id)

\* C32: produce() whose encodings are missing, no list or an empty list goes
\* on with exactly one encoding, the empty one: the parameters of the
\* 'transport.produce' request and of the Producer hold that one encoding.
\* A list of one or more encodings goes through as it was given.
C32_DefaultEncoding ==
  [][\A encodings \in EncodingInputs :
       Produce(None, "video", TRUE, TRUE, "a", encodings, TRUE, TRUE) =>
         /\ trace' = << Req("transport.produce", Len(objs')) >>
         /\ objs'[Len(objs')].enc[1] = "array"
         /\ IF encodings[1] = "array" /\ Len(encodings[2]) >= 1
              THEN objs'[Len(objs')].enc = encodings
              ELSE objs'[Len(objs')].enc[2] = << DefaultEncoding >>]_vars

\* Two Producers have been built, one from parameters without encodings and
\* one from parameters with two encodings.
C32_Witness ==
  \E h1, h2 \in Handles :
    /\ Built(h1) /\ objs[h1].cls = "Producer" /\ objs[h1].enc[2] = << DefaultEncoding >>
    /\ Built(h2) /\ objs[h2].cls = "Producer" /\ Len(objs[h2].enc[2]) = 2

\* The bitmap a call of getNextSctpStreamId() works on: the Transport's, or
\* one of MIS free entries when the Transport has none yet.
BitmapAtCall == IF sctpStreamIds = NoBuffer THEN [i \in 1..mis |-> 0] ELSE sctpStreamIds[1]

\* The free indexes of bitmap b, and how far index f is from cursor next in
\* the cyclic order next mod MIS, next + 1 mod MIS, ...
FreeIn(b) == {f \in 0..(Len(b) - 1) : b[f + 1] = 0}
CyclicDistance(b, next, f) == (f + Len(b) - (next % Len(b))) % Len(b)

\* A consumeData() call that gets as far as getNextSctpStreamId().
AllocatingCall ==
  /\ kind # "DirectTransport"
  /\ \E dpid \in RouterIds : ConsumeData(dpid, TRUE, TRUE)

\* C33: getNextSctpStreamId() returns the first free index in the cyclic
\* order that starts at the cursor and moves the cursor to that index + 1; when
\* no index is free it throws and leaves the cursor.  The first call creates
\* the bitmap with MIS entries, all free; on a Transport without SCTP
\* parameters the call throws the missing-MIS error and creates nothing.
C33_AllocationResult ==
  [][AllocatingCall =>
       IF mis = None
         THEN /\ trace' = << Throw("TypeError: missing sctpParameters.MIS") >>
              /\ UNCHANGED <<sctpStreamIds, nextSctpStreamId, objs>>
         ELSE LET b == BitmapAtCall IN
              /\ Len(sctpStreamIds'[1]) = mis
              /\ IF FreeIn(b) = {}
                   THEN /\ trace' = << Throw("Error: no sctpStreamId available") >>
                        /\ sctpStreamIds'[1] = b
                        /\ UNCHANGED <<nextSctpStreamId, objs>>
                   ELSE \E f \in FreeIn(b) :
                          /\ \A g \in FreeIn(b) :
                               CyclicDistance(b, nextSctpStreamId, f)
                                 <= CyclicDistance(b, nextSctpStreamId, g)
                          /\ objs'[Len(objs')].sid = f
                          /\ nextSctpStreamId' = f + 1
                          /\ sctpStreamIds'[1] = [b EXCEPT ![f + 1] = 1]]_vars

\* A third consumeData() call has wrapped around: with the cursor at MIS it
\* was given index 0, freed by a closed DataConsumer, while index 1 is held.
C33_Witness ==
  /\ mis = 2
  /\ Len(objs) = 3
  /\ objs[3].phase = "pending" /\ objs[3].sid = 0
  /\ nextSctpStreamId = 1
  /\ sctpStreamIds = << << 1, 1 >> >>

\* The stream ids reserved in the Transport's bitmap.
ReservedIds == IF sctpStreamIds = NoBuffer THEN {}
               ELSE {f \in 0..(Len(sctpStreamIds[1]) - 1) : sctpStreamIds[1][f + 1] # 0}
ReservedIdsAfter == IF sctpStreamIds' = NoBuffer THEN {}
                    ELSE {f \in 0..(Len(sctpStreamIds'[1]) - 1) : sctpStreamIds'[1][f + 1] # 0}

\* The call record the step has added.
NewCallRecord == objs'[Len(objs')]

C35_SctpStateAbsence ==
  [][/\ mis = None => sctpState' = Undefined
     /\ mis # None /\ ~closed /\ (Close \/ RouterClosed) => sctpState' = "closed"]_vars

\* A PlainTransport built without SCTP has been closed by the Router and has
\* no sctpState.
C35_Witness ==
  /\ kind = "PlainTransport" /\ mis = None
  /\ closed
  /\ sctpState = Undefined
  /\ trace # <<>> /\ trace[1] = Ev("Transport", "routerclose", 0)

\* The holders of stream id f: the live DataConsumers the Transport has
\* registered under it and the consumeData() calls that wait for the engine
\* with it.
HoldersOf(f) ==
  {h \in Handles :
     /\ objs[h].cls = "DataConsumer"
     /\ objs[h].sid = f
     /\ \/ objs[h].phase = "pending"
        \/ Built(h) /\ ~objs[h].closed /\ MapHas(dataConsumers, objs[h].id)}

\* C36: on an open Transport other than a DirectTransport every stream id
\* reserved in the bitmap has exactly one holder, a registered live
\* DataConsumer or a consumeData() call that waits for the engine.
C36_NoStreamIdLeak ==
  ~closed /\ kind # "DirectTransport" =>
    \A f \in ReservedIds : Cardinality(HoldersOf(f)) = 1

\* The registered Producers and DataProducers the step closes.
ProducersClosedByStep ==
  {h \in Handles :
     /\ Registered(h)
     /\ objs[h].cls \in {"Producer", "DataProducer"}
     /\ ~objs[h].closed
     /\ objs'[h].closed}

\* C37: a step that closes a registered Producer (DataProducer) makes the
\* Transport emit '@producerclose' ('@dataproducerclose') for it exactly once,
\* whether the child closed itself, the Transport was closed or its listen
\* server was; only routerClosed() emits none.
C37_RouterToldOnce ==
  [][\A h \in ProducersClosedByStep :
       CountFor(trace', "Transport", RouterSignalOf(objs[h].cls), h)
         = IF RouterClosed THEN 0 ELSE 1]_vars

\* C38: the registry of the WebRtcServer holds no closed transport, whichever
\* trigger closed it, and a step that closes a transport once passed to
\* handleWebRtcTransport() emits 'webrtctransportunhandled' exactly once.
C38_RegistryHoldsLiveTransports ==
  /\ [](TransportId \in webRtcTransports => ~closed)
  /\ [][closeListeners > 0 /\ ~closed /\ closed' =>
          Count(trace', "WebRtcServer.observer", "webrtctransportunhandled") = 1]_vars

\* The 'pause' and 'resume' events of the RtpObserver's observer in a trace.
PauseEvents(tr) == Count(tr, "RtpObserver.observer", "pause")
ResumeEvents(tr) == Count(tr, "RtpObserver.observer", "resume")

\* C39: the RtpObserver's observer emits 'pause' only in a step that takes the
\* paused flag from false to true and 'resume' only in one that takes it from
\* true to false, however pause() and resume() calls overlap; a rejected
\* request changes neither the flag nor the events.
C39_PauseResumeTransitions ==
  [][/\ PauseEvents(trace') > 0 => ~roPaused /\ roPaused'
     /\ ResumeEvents(trace') > 0 => roPaused /\ ~roPaused'
     /\ Throws(trace') # {} =>
          /\ UNCHANGED roPaused
          /\ PauseEvents(trace') + ResumeEvents(trace') = 0]_vars

\* A produce() call that fails in one of its two ortc negotiation steps.
ProduceFailsInNegotiation ==
  \E cname \in Cnames : \E fail \in 2..3 :
    Produce(None, "video", TRUE, TRUE, cname, OneEncoding, fail # 2, fail # 3)

\* The produce() calls that have built a Producer or still wait for the engine.
ProducersMadeOrAwaited ==
  {h \in Handles : objs[h].cls = "Producer" /\ objs[h].phase \in {"pending", "built"}}

\* C40: a produce() call that fails in the capability mapping or in the
\* derivation of the consumable parameters leaves the allocator state as it
\* was, and the Transport's CNAME for Producers is fixed only by a call that
\* has built a Producer or can still build one, never by one the engine
\* rejected.
C40_FailedProduceFixesNothing ==
  /\ [][ProduceFailsInNegotiation => UNCHANGED allocators]_vars
  /\ [](cnameForProducers # "" => ProducersMadeOrAwaited # {})

====
